---- MODULE Spec2Model ----
(***************************************************************************)
(* Video playback worker (utils/video_thread.py, class VideoThread) driven *)
(* by the handlers of the video inference tab                              *)
(* (widgets/video_inference_tab.py, class VideoInferenceTab).              *)
(*                                                                         *)
(* Two threads of control are modelled:                                    *)
(*   - the worker thread executing VideoThread.run; its position is pc,    *)
(*     one label per source line that touches a field shared with the      *)
(*     control context (L62 is the `while not self.should_stop` test, ...);*)
(*   - the control (GUI) context executing the tab's handlers; its         *)
(*     position is ctl ("idle" between handlers).  stop() blocks the       *)
(*     control context in QThread.wait() until the worker has returned.    *)
(* Variables whose comment says "history" record what happened; no action  *)
(* of the program reads them.                                              *)
(***************************************************************************)
EXTENDS Integers, Sequences, FiniteSets, TLC

\* ------------------------------------------------------------------ bounds
\* user actions: play, pause, stop, seek, export, inference toggle, model load,
\* selection of a video, restored session, closing of the tab
MaxCmds == 5
\* frames in the openable video
NumFrames == 2
\* calls of the export handler
MaxExports == 1

\* ------------------------------------------------------------ environment
\* The files of the selected folder: "clip" opens, "broken" does not, "odd"
\* opens and yields a first frame of which no QImage can be made and a second
\* frame on which inference fails, and reports no frame rate.
FolderContents == { <<"clip", "broken", "odd">> }
Openable(path) == path \in {"clip", "odd"}
\* cap.get(cv2.CAP_PROP_FPS), 0 when the source does not tell
FpsOf(path) == IF path = "clip" THEN 10 ELSE 0
FrameCountOf(path) == IF Openable(path) THEN NumFrames ELSE 0
\* _convert_frame_to_qimage(frame) returns an image (neither None nor null)
Convertible(path, idx) == ~(path = "odd" /\ idx = 0)
\* self.model(frame) or results.plot() raises on the frame
InferenceFails(path, idx) == path = "odd" /\ idx = 1
\* positions handed to seek(): one negative value and two frame starts
SeekTargets == {-1, 0, 100}
\* indexes handed to on_video_selected: the rows of the list (no row exists
\* while the list is empty)
Indexes == {0, 1, 2}

VARIABLES
    \* VideoInferenceTab
    video_thread,       \* "None" or "VideoThread"
    video_files,        \* video_handler.video_files
    current_index,      \* video_handler.current_index
    enabled,            \* inference_engine.enabled
    model,              \* inference_engine.model is not None
    message,            \* outcome of the last export or step handler
    exports,            \* history: calls of _handle_frame_export_data so far
    refused,            \* history: the last call had no directory or no frame
    call,               \* history: inputs and enable flag of the last call
    export_output_dir,  \* "None" or "dir"
    export_requested,   \* request_current_frame_data was emitted
    fs,                 \* the export directory: paths present, label file contents
    \* VideoThread fields
    video_path, is_playing, is_paused, should_stop, seek_position, cap,
    \* QThread
    running,            \* isRunning()
    pc,                 \* position of the worker in run()
    \* locals of run(): ret is "none" before the first read, then "frame" or "end";
    \* delay_ms is NoDelay while unbound
    ret, frame, annotated, delay_ms,
    \* media source
    next_frame,         \* index of the frame the next read() returns
    \* control context
    ctl, ctl_ret, sel_index,
    \* history
    events,             \* events of the current VideoThread since its last start()
    cmds,               \* user actions so far
    stop_returned,      \* stop() has returned and no play() was issued since
    stop_pending,       \* stop() set the flag while the worker was running
    late_iter,          \* the current loop iteration began after stop() set the flag
    nreq,               \* seek() calls since the loop last tested seek_position
    batch,              \* nreq as it was when the loop found the pending seek it
                        \* is applying, 0 otherwise
    last_req,           \* target of the last seek()
    seek_idle,          \* the last seek() found the worker not running and stored
                        \* a target >= 0 that the loop has not cleared since
    last_set,           \* last position handed to cap.set
    repos,              \* cap.set calls since the last seek()
    frame_at_pause,     \* frame on screen when pause() was issued
    at_pause,           \* what the run had decoded and emitted when pause() was issued
    last_cmd,           \* the last transport command and the session it found
    prior_run,          \* history: how the previous run had ended at the last play()
    only_play,          \* no command but Play was issued since the thread was created
    releases,           \* cap.release() calls since the last start()
    \* annotation codec (utils/yolo_format.py)
    codec_pc,           \* "none", then "new", "encoded", "parsed"
    annotation,         \* a YOLOAnnotation: class_id and points
    line,               \* to_yolo_string(annotation), a sequence of characters
    parsed,             \* what from_yolo_string(line) returned or raised
    \* FileHandler (utils/file_handler.py)
    image_files,        \* file_handler.image_files
    image_index,        \* file_handler.current_index
    nav,                \* history: the last call on a handler and what it returned
    \* annotation file (utils/yolo_format.py, load_annotations / save_annotations)
    store,              \* the file at annotation_path: whether it exists, its lines
    store_pc,           \* "none", then "saved", "written", "loaded"
    put,                \* history: the last save_annotations or foreign write
    loaded              \* what the last load_annotations returned or raised

tabVars == <<video_thread, video_files, current_index, enabled, model>>
exportVars ==
    <<export_output_dir, export_requested, fs, message, exports, refused, call>>
threadVars == <<video_path, is_playing, is_paused, should_stop, seek_position, cap>>
workerVars == <<running, pc, ret, frame, annotated, delay_ms, next_frame>>
ctlVars == <<ctl, ctl_ret, sel_index>>
seekHist == <<nreq, batch, last_req, seek_idle, last_set, repos>>
stopHist == <<stop_returned, stop_pending, late_iter>>
histVars ==
    <<events, cmds, frame_at_pause, at_pause, releases, last_cmd, prior_run, only_play>>
codecVars == <<codec_pc, annotation, line, parsed>>
cursorVars == <<image_files, image_index, nav>>
storeVars == <<store, store_pc, put, loaded>>
vars ==
    <<tabVars, exportVars, threadVars, workerVars, ctlVars, seekHist, stopHist,
      histVars, codecVars, cursorVars, storeVars>>

\* seek_position when no seek is pending
NoSeek == -1
\* delay_ms before line 97 has assigned it
NoDelay == -1

\* the export directory before anything was written into it
FrameNumbers == {0, 1}
EmptyDir ==
    [dirs |-> {}, images |-> {}, labels |-> {}, lines |-> [n \in FrameNumbers |-> <<>>]]

Event(t, v) == [type |-> t, val |-> v]
Emit(t, v) == events' = Append(events, Event(t, v))

\* index of the last frame delivered by FrameReady, -1 if none
RECURSIVE LastFrameOf(_)
LastFrameOf(log) ==
    IF log = <<>> THEN -1
    ELSE IF log[Len(log)].type = "FrameReady" THEN log[Len(log)].val[1]
    ELSE LastFrameOf(SubSeq(log, 1, Len(log) - 1))

Count(log, t) == Cardinality({i \in 1..Len(log) : log[i].type = t})

\* no pause() is in force on a running worker
NoPause == [decoded |-> -1, frames |-> -1, positions |-> -1]

\* class ids and polygons of detected instances
ClassIds == {0, 1}
MaxInstances == 2
SeqsUpTo(S, n) == UNION {[1..k -> S] : k \in 0..n}

\* an inference result: absent (None), or the class ids of its boxes and the
\* number of its polygons (masks = FALSE: the result carries no masks)
Result(m, c, n) == [present |-> TRUE, masks |-> m, cls |-> c, npolys |-> n]
NoResult == [present |-> FALSE, masks |-> FALSE, cls |-> <<>>, npolys |-> 0]
Results ==
    {NoResult}
    \cup {Result(TRUE, c, Len(c)) : c \in SeqsUpTo(ClassIds, MaxInstances)}
    \cup {Result(FALSE, <<0>>, 0), Result(TRUE, <<0>>, 0)}

\* before the first call of the export handler
NoCall ==
    [frame_number |-> 0, results |-> NoResult, imwrite |-> "ok", label_io |-> "ok",
     enabled |-> TRUE]

\* a YOLOAnnotation; error is set when from_yolo_string raised ValueError
Annotation(c, p) == [error |-> FALSE, class_id |-> c, points |-> p]
NoAnnotation == Annotation(0, <<>>)
ValueError == [error |-> TRUE, class_id |-> 0, points |-> <<>>]

\* a call on VideoHandler or FileHandler: the method, its argument, the cursor
\* it found and what it returned (None is written TRUE)
Nav(h, o, a, b, r) == [handler |-> h, op |-> o, arg |-> a, before |-> b, ret |-> r]
NoNav == Nav("none", "none", 0, 0, TRUE)

\* the annotation file: missing, or there with its lines (each a str
\* without its newline)
NoFile == [exists |-> FALSE, lines |-> <<>>]
File(lines) == [exists |-> TRUE, lines |-> lines]
\* what was put at annotation_path last: the list handed to save_annotations
\* and whether the file existed then, or the annotations a file written by
\* another program holds on its valid lines
Put(by, list, existed) == [by |-> by, list |-> list, existed |-> existed]
NoPut == Put("none", <<>>, FALSE)
\* load_annotations returned a list, or raised
Loaded(raised, annotations) == [raised |-> raised, annotations |-> annotations]
NoLoaded == Loaded(FALSE, <<>>)

\* ------------------------------------------------------------------- Init
Init ==
    /\ video_thread = "None"
    /\ video_files = <<>>
    /\ current_index = 0
    /\ enabled = TRUE
    /\ model = FALSE
    /\ message = "none"
    /\ exports = 0
    /\ refused = FALSE
    /\ call = NoCall
    /\ export_output_dir = "None"
    /\ export_requested = FALSE
    /\ fs = EmptyDir
    /\ video_path = "None"
    /\ is_playing = FALSE
    /\ is_paused = FALSE
    /\ should_stop = FALSE
    /\ seek_position = NoSeek
    /\ cap = "None"
    /\ running = FALSE
    /\ pc = "idle"
    /\ ret = "none"
    /\ frame = -1
    /\ annotated = FALSE
    /\ delay_ms = NoDelay
    /\ next_frame = 0
    /\ ctl = "idle"
    /\ ctl_ret = "idle"
    /\ sel_index = 0
    /\ events = <<>>
    /\ cmds = 0
    /\ stop_returned = FALSE
    /\ stop_pending = FALSE
    /\ late_iter = FALSE
    /\ nreq = 0
    /\ batch = 0
    /\ last_req = -1
    /\ seek_idle = FALSE
    /\ last_set = -1
    /\ repos = 0
    /\ frame_at_pause = -2
    /\ at_pause = NoPause
    /\ last_cmd = "none"
    /\ prior_run = "none"
    /\ only_play = FALSE
    /\ releases = 0
    /\ codec_pc = "none"
    /\ annotation = NoAnnotation
    /\ line = <<>>
    /\ parsed = NoAnnotation
    /\ image_files = <<>>
    /\ image_index = 0
    /\ nav = NoNav
    /\ store = NoFile
    /\ store_pc = "none"
    /\ put = NoPut
    /\ loaded = NoLoaded

\* ------------------------------------------------------------ media source
Min(a, b) == IF a < b THEN a ELSE b

\* the duration left in seconds
DurationMs_Seconds(total_frames, fps) ==
    IF fps > 0 THEN total_frames \div fps ELSE 0

\* int((total_frames / fps) * 1000) if fps > 0 else 0
DurationMs(total_frames, fps) ==
    IF fps > 0 THEN (total_frames * 1000) \div fps ELSE 0

\* int(1000 / fps), evaluated only when fps > 0; 0 stands for "no sleep"
DelayMs(fps) == IF fps > 0 THEN 1000 \div fps ELSE 0

\* cap.get(CAP_PROP_POS_MSEC) after frame idx was read: its timestamp
PosMsec(idx, path) ==
    IF FpsOf(path) > 0 THEN (idx * 1000) \div FpsOf(path) ELSE 0

\* cap.set(CAP_PROP_POS_MSEC, ms): the frame the next read() returns
SeekFrame(ms, path) ==
    IF FpsOf(path) > 0
    THEN Min(FrameCountOf(path), (ms * FpsOf(path)) \div 1000)
    ELSE 0

\* where cap.set(CAP_PROP_POS_MSEC, ms) can leave the source that stood at
\* frame cur: a negative ms is no timestamp of the stream, the backend then
\* goes back to the first frame or refuses and stays where it was
SeekFrames(ms, path, cur) ==
    IF ms < 0 THEN {0, cur} ELSE {SeekFrame(ms, path)}

\* --------------------------------------------------- worker: VideoThread.run
\* the thread leaves run(): QThread marks it finished
Returned ==
    /\ running' = FALSE
    /\ pc' = "idle"
    /\ stop_pending' = FALSE
    /\ late_iter' = FALSE

\* run() without the return of line 50: a failed open goes on into the loop
RunOpen_NoReturn ==
    /\ pc = "L42"
    /\ IF video_path = "None"
       THEN /\ pc' = "Lret"
            /\ UNCHANGED <<cap, events, next_frame>>
       ELSE IF ~Openable(video_path)
       THEN /\ cap' = "unopened"
            /\ Emit("Error", video_path)
            /\ pc' = "L59"
            /\ UNCHANGED next_frame
       ELSE /\ cap' = "open"
            /\ next_frame' = 0
            /\ Emit("DurationChanged",
                    DurationMs(FrameCountOf(video_path), FpsOf(video_path)))
            /\ pc' = "L59"
    /\ UNCHANGED <<tabVars, exportVars, codecVars, cursorVars, storeVars, video_path,
                   is_playing, is_paused, should_stop, seek_position, running, ret,
                   frame, annotated, delay_ms, ctlVars, seekHist, stopHist, cmds,
                   frame_at_pause, at_pause, last_cmd, prior_run, only_play,
                   releases>>

\* lines 42-57: open the video, report the duration
RunOpen ==
    /\ pc = "L42"
    /\ IF video_path = "None"
       THEN /\ pc' = "Lret"
            /\ UNCHANGED <<cap, events, next_frame>>
       ELSE IF ~Openable(video_path)
       THEN /\ cap' = "unopened"
            /\ Emit("Error", video_path)
            /\ pc' = "Lret"
            /\ UNCHANGED next_frame
       ELSE /\ cap' = "open"
            /\ next_frame' = 0
            /\ Emit("DurationChanged",
                    DurationMs(FrameCountOf(video_path), FpsOf(video_path)))
            /\ pc' = "L59"
    /\ UNCHANGED <<tabVars, exportVars, codecVars, cursorVars, storeVars, video_path,
                   is_playing, is_paused, should_stop, seek_position, running, ret,
                   frame, annotated, delay_ms, ctlVars, seekHist, stopHist, cmds,
                   frame_at_pause, at_pause, last_cmd, prior_run, only_play,
                   releases>>

\* the start of a run discarding a seek target recorded before it
RunClearStop_ClearsSeek ==
    /\ pc = "L59"
    /\ should_stop' = FALSE
    /\ seek_position' = NoSeek
    /\ pc' = "L60"
    /\ UNCHANGED <<tabVars, exportVars, codecVars, cursorVars, storeVars, video_path,
                   is_playing, is_paused, cap, running, ret, frame, annotated,
                   delay_ms, next_frame, ctlVars, seekHist, stopHist, histVars>>

\* line 59: self.should_stop = False
RunClearStop ==
    /\ pc = "L59"
    /\ should_stop' = FALSE
    /\ pc' = "L60"
    /\ UNCHANGED <<tabVars, exportVars, codecVars, cursorVars, storeVars, video_path,
                   is_playing, is_paused, seek_position, cap, running, ret, frame,
                   annotated, delay_ms, next_frame, ctlVars, seekHist, stopHist,
                   histVars>>

\* line 60: self.is_playing = True
RunSetPlaying ==
    /\ pc = "L60"
    /\ is_playing' = TRUE
    /\ pc' = "L62"
    /\ UNCHANGED <<tabVars, exportVars, codecVars, cursorVars, storeVars, video_path,
                   is_paused, should_stop, seek_position, cap, running, ret, frame,
                   annotated, delay_ms, next_frame, ctlVars, seekHist, stopHist,
                   histVars>>

\* line 62: while not self.should_stop
LoopTest ==
    /\ pc = "L62"
    /\ IF should_stop
       THEN pc' = "L101" /\ UNCHANGED late_iter
       ELSE pc' = "L64" /\ late_iter' = stop_pending
    /\ UNCHANGED <<tabVars, exportVars, codecVars, cursorVars, storeVars, threadVars,
                   running, ret, frame, annotated, delay_ms, next_frame, ctlVars,
                   seekHist, stop_returned, stop_pending, histVars>>

\* line 64: if self.seek_position >= 0
SeekTest ==
    /\ pc = "L64"
    /\ IF seek_position >= 0
       THEN pc' = "L65" /\ batch' = nreq
       ELSE pc' = "L69" /\ batch' = 0
    /\ nreq' = 0
    /\ UNCHANGED <<tabVars, exportVars, codecVars, cursorVars, storeVars, threadVars,
                   running, ret, frame, annotated, delay_ms, next_frame, ctlVars,
                   last_req, seek_idle, last_set, repos, stopHist, histVars>>

\* line 65: self.cap.set(cv2.CAP_PROP_POS_MSEC, self.seek_position)
SeekApply ==
    /\ pc = "L65"
    /\ next_frame' \in SeekFrames(seek_position, video_path, next_frame)
    /\ last_set' = seek_position
    /\ repos' = Min(repos + 1, 2)
    /\ pc' = "L66"
    /\ UNCHANGED <<tabVars, exportVars, codecVars, cursorVars, storeVars, threadVars,
                   running, ret, frame, annotated, delay_ms, ctlVars, nreq, batch,
                   last_req, seek_idle, stopHist, histVars>>

\* line 66: self.seek_position = -1
SeekClear ==
    /\ pc = "L66"
    /\ seek_position' = NoSeek
    /\ seek_idle' = FALSE
    /\ batch' = 0
    /\ pc' = "L69"
    /\ UNCHANGED <<tabVars, exportVars, codecVars, cursorVars, storeVars, video_path,
                   is_playing, is_paused, should_stop, cap, running, ret, frame,
                   annotated, delay_ms, next_frame, ctlVars, nreq, last_req,
                   last_set, repos, stopHist, histVars>>

\* the loop ignoring the pause flag
PauseTest_Ignored ==
    /\ pc = "L69"
    /\ pc' = "L74"
    /\ UNCHANGED <<tabVars, exportVars, codecVars, cursorVars, storeVars, threadVars,
                   running, ret, frame, annotated, delay_ms, next_frame, ctlVars,
                   seekHist, stopHist, histVars>>

\* line 69: if self.is_paused
PauseTest ==
    /\ pc = "L69"
    /\ pc' = IF is_paused THEN "L70" ELSE "L74"
    /\ UNCHANGED <<tabVars, exportVars, codecVars, cursorVars, storeVars, threadVars,
                   running, ret, frame, annotated, delay_ms, next_frame, ctlVars,
                   seekHist, stopHist, histVars>>

\* the pause poll as a mere delay: after the sleep the iteration reads on
PauseSleep_ReadsOn ==
    /\ pc = "L70"
    /\ pc' = "L74"
    /\ UNCHANGED <<tabVars, exportVars, codecVars, cursorVars, storeVars, threadVars,
                   running, ret, frame, annotated, delay_ms, next_frame, ctlVars,
                   seekHist, stopHist, histVars>>

\* lines 70-71: self.msleep(100); continue
PauseSleep ==
    /\ pc = "L70"
    /\ pc' = "L62"
    /\ UNCHANGED <<tabVars, exportVars, codecVars, cursorVars, storeVars, threadVars,
                   running, ret, frame, annotated, delay_ms, next_frame, ctlVars,
                   seekHist, stopHist, histVars>>

\* lines 74-76: ret, frame = self.cap.read()
ReadFrame ==
    /\ pc = "L74"
    /\ IF next_frame < FrameCountOf(video_path)
       THEN /\ ret' = "frame"
            /\ frame' = next_frame
            /\ next_frame' = next_frame + 1
            /\ pc' = "L82"
       ELSE /\ ret' = "end"
            /\ pc' = "L78"
            /\ UNCHANGED <<frame, next_frame>>
    /\ UNCHANGED <<tabVars, exportVars, codecVars, cursorVars, storeVars, threadVars,
                   running, annotated, delay_ms, ctlVars, seekHist, stopHist,
                   histVars>>

\* end of video leaving run() at once, a return in place of the break
EndOfVideo_Return ==
    /\ pc = "L78"
    /\ Emit("PlaybackFinished", 0)
    /\ pc' = "Lret"
    /\ UNCHANGED <<tabVars, exportVars, codecVars, cursorVars, storeVars, threadVars,
                   running, ret, frame, annotated, delay_ms, next_frame, ctlVars,
                   seekHist, stopHist, cmds, frame_at_pause, at_pause, last_cmd,
                   prior_run, only_play, releases>>

\* end of video without the break: the loop goes on
EndOfVideo_NoBreak ==
    /\ pc = "L78"
    /\ Emit("PlaybackFinished", 0)
    /\ pc' = "L62"
    /\ UNCHANGED <<tabVars, exportVars, codecVars, cursorVars, storeVars, threadVars,
                   running, ret, frame, annotated, delay_ms, next_frame, ctlVars,
                   seekHist, stopHist, cmds, frame_at_pause, at_pause, last_cmd,
                   prior_run, only_play, releases>>

\* lines 78-79: self.playback_finished.emit(); break
EndOfVideo ==
    /\ pc = "L78"
    /\ Emit("PlaybackFinished", 0)
    /\ pc' = "L101"
    /\ UNCHANGED <<tabVars, exportVars, codecVars, cursorVars, storeVars, threadVars,
                   running, ret, frame, annotated, delay_ms, next_frame, ctlVars,
                   seekHist, stopHist, cmds, frame_at_pause, at_pause, last_cmd,
                   prior_run, only_play, releases>>

\* line 82: if self.inference_engine and self.inference_engine.is_loaded()
\* and self.inference_engine.enabled (the engine is attached at line 244)
Inference ==
    /\ pc = "L82"
    /\ IF model /\ enabled
       THEN pc' = "L83" /\ UNCHANGED annotated
       ELSE pc' = "L89" /\ annotated' = FALSE
    /\ UNCHANGED <<tabVars, exportVars, codecVars, cursorVars, storeVars, threadVars,
                   running, ret, frame, delay_ms, next_frame, ctlVars, seekHist,
                   stopHist, histVars>>

\* predict() going by the test of line 82 alone: the state of the engine is
\* not read again
Predict_NoRecheck ==
    /\ pc = "L83"
    /\ annotated' = ~InferenceFails(video_path, frame)
    /\ pc' = "L89"
    /\ UNCHANGED <<tabVars, exportVars, codecVars, cursorVars, storeVars, threadVars,
                   running, ret, frame, delay_ms, next_frame, ctlVars, seekHist,
                   stopHist, histVars>>

\* predict() and draw_results() without their except clauses: the exception
\* ends run() where it stands
Predict_NoCatch ==
    /\ pc = "L83"
    /\ IF model /\ enabled /\ InferenceFails(video_path, frame)
       THEN pc' = "Lret" /\ UNCHANGED annotated
       ELSE pc' = "L89" /\ annotated' = (model /\ enabled)
    /\ UNCHANGED <<tabVars, exportVars, codecVars, cursorVars, storeVars, threadVars,
                   running, ret, frame, delay_ms, next_frame, ctlVars, seekHist,
                   stopHist, histVars>>

\* lines 83-84: predict (yolo_inference.py, lines 54-62) reads model and
\* enabled again and returns None when one is missing or the model raises;
\* draw_results (lines 75-84) returns the frame as it is for None or when
\* plot() raises
Predict ==
    /\ pc = "L83"
    /\ annotated' = (model /\ enabled /\ ~InferenceFails(video_path, frame))
    /\ pc' = "L89"
    /\ UNCHANGED <<tabVars, exportVars, codecVars, cursorVars, storeVars, threadVars,
                   running, ret, frame, delay_ms, next_frame, ctlVars, seekHist,
                   stopHist, histVars>>

\* lines 87-89: qt_image = ...; if qt_image: self.frame_ready.emit(qt_image)
EmitFrame ==
    /\ pc = "L89"
    /\ IF Convertible(video_path, frame)
       THEN Emit("FrameReady", <<frame, annotated>>)
       ELSE UNCHANGED events
    /\ pc' = "L92"
    /\ UNCHANGED <<tabVars, exportVars, codecVars, cursorVars, storeVars, threadVars,
                   running, ret, frame, annotated, delay_ms, next_frame, ctlVars,
                   seekHist, stopHist, cmds, frame_at_pause, at_pause, last_cmd,
                   prior_run, only_play, releases>>

\* lines 92-93: self.position_changed.emit(position_ms)
EmitPosition ==
    /\ pc = "L92"
    /\ Emit("PositionChanged", PosMsec(frame, video_path))
    /\ pc' = "L96"
    /\ UNCHANGED <<tabVars, exportVars, codecVars, cursorVars, storeVars, threadVars,
                   running, ret, frame, annotated, delay_ms, next_frame, ctlVars,
                   seekHist, stopHist, cmds, frame_at_pause, at_pause, last_cmd,
                   prior_run, only_play, releases>>

\* the pacing sleep without the test of line 96: a sleep of 0 ms when the
\* frame rate is unknown
PacingSleep_NoTest ==
    /\ pc = "L96"
    /\ delay_ms' = DelayMs(FpsOf(video_path))
    /\ pc' = "L62"
    /\ UNCHANGED <<tabVars, exportVars, codecVars, cursorVars, storeVars, threadVars,
                   running, ret, frame, annotated, next_frame, ctlVars, seekHist,
                   stopHist, histVars>>

\* lines 96-98: if fps > 0: delay_ms = int(1000 / fps); self.msleep(delay_ms);
\* then the next iteration
PacingSleep ==
    /\ pc = "L96"
    /\ IF FpsOf(video_path) > 0
       THEN delay_ms' = DelayMs(FpsOf(video_path))
       ELSE UNCHANGED delay_ms
    /\ pc' = "L62"
    /\ UNCHANGED <<tabVars, exportVars, codecVars, cursorVars, storeVars, threadVars,
                   running, ret, frame, annotated, next_frame, ctlVars, seekHist,
                   stopHist, histVars>>

\* lines 101-103: if self.cap: self.cap.release(); self.cap = None
Cleanup ==
    /\ pc = "L101"
    /\ IF cap # "None"
       THEN cap' = "None" /\ releases' = releases + 1
       ELSE UNCHANGED <<cap, releases>>
    /\ pc' = "L104"
    /\ UNCHANGED <<tabVars, exportVars, codecVars, cursorVars, storeVars, video_path,
                   is_playing, is_paused, should_stop, seek_position, running, ret,
                   frame, annotated, delay_ms, next_frame, ctlVars, seekHist,
                   stopHist, events, cmds, frame_at_pause, at_pause, last_cmd,
                   prior_run, only_play>>

\* run() ending without line 104: is_playing stays set
ClearPlaying_Skipped ==
    /\ pc = "L104"
    /\ pc' = "Lret"
    /\ UNCHANGED <<tabVars, exportVars, codecVars, cursorVars, storeVars, threadVars,
                   running, ret, frame, annotated, delay_ms, next_frame, ctlVars,
                   seekHist, stopHist, histVars>>

\* line 104: self.is_playing = False
ClearPlaying ==
    /\ pc = "L104"
    /\ is_playing' = FALSE
    /\ pc' = "Lret"
    /\ UNCHANGED <<tabVars, exportVars, codecVars, cursorVars, storeVars, video_path,
                   is_paused, should_stop, seek_position, cap, running, ret, frame,
                   annotated, delay_ms, next_frame, ctlVars, seekHist, stopHist,
                   histVars>>

\* run() returns (lines 43, 50 and the end of the function)
RunReturn ==
    /\ pc = "Lret"
    /\ Returned
    /\ UNCHANGED <<tabVars, exportVars, codecVars, cursorVars, storeVars, threadVars,
                   ret, frame, annotated, delay_ms, next_frame, ctlVars, seekHist,
                   stop_returned, histVars>>

Worker ==
    \/ RunOpen \/ RunClearStop \/ RunSetPlaying \/ LoopTest \/ SeekTest
    \/ SeekApply \/ SeekClear \/ PauseTest \/ PauseSleep \/ ReadFrame \/ EndOfVideo
    \/ Inference \/ Predict \/ EmitFrame \/ EmitPosition \/ PacingSleep \/ Cleanup
    \/ ClearPlaying \/ RunReturn

\* what the current run has done so far: frames read (a frame read is one
\* whose PositionChanged was emitted or which the iteration still holds),
\* FrameReady and PositionChanged events emitted
Progressed ==
    [decoded |-> Count(events, "PositionChanged")
                   + (IF pc \in {"L82", "L83", "L89", "L92"} THEN 1 ELSE 0),
     frames |-> Count(events, "FrameReady"),
     positions |-> Count(events, "PositionChanged")]

\* ------------------------------------------- control context: VideoThread API
\* VideoThread.__init__ followed by set_video(path) and set_inference_engine
NewThread(path) ==
    /\ video_thread' = "VideoThread"
    /\ video_path' = path
    /\ is_playing' = FALSE
    /\ is_paused' = FALSE
    /\ should_stop' = TRUE
    /\ seek_position' = NoSeek
    /\ cap' = "None"

\* QThread.start(): nothing when the thread is already running
Start ==
    IF running
    THEN UNCHANGED <<running, pc, ret, delay_ms, events, releases>>
    ELSE /\ running' = TRUE
         /\ pc' = "L42"
         /\ ret' = "none"
         /\ delay_ms' = NoDelay
         /\ events' = <<>>
         /\ releases' = 0

\* play(), line 108: if not self.is_playing
PlayTest ==
    /\ ctl = "idle"
    /\ video_thread # "None"
    /\ cmds < MaxCmds
    /\ cmds' = cmds + 1
    /\ ctl' = IF is_playing THEN "play_resume" ELSE "play_start"
    /\ stop_returned' = FALSE
    /\ frame_at_pause' = -2
    /\ at_pause' = NoPause
    /\ last_cmd' = "play"
    /\ prior_run' = IF running \/ events = <<>> THEN "none"
                    ELSE IF last_cmd = "stop" THEN "stopped"
                    ELSE IF ret = "end" THEN "finished"
                    ELSE "ended"
    /\ UNCHANGED <<tabVars, exportVars, codecVars, cursorVars, storeVars, threadVars,
                   workerVars, ctl_ret, sel_index, seekHist, stop_pending, late_iter,
                   events, releases, only_play>>

\* play(), line 109: self.start()
PlayStart ==
    /\ ctl = "play_start"
    /\ Start
    /\ last_cmd' = IF ~running THEN "play_idle"
                   ELSE IF is_paused THEN "play_paused" ELSE "play_starting"
    /\ ctl' = "idle"
    /\ UNCHANGED <<tabVars, exportVars, codecVars, cursorVars, storeVars, threadVars,
                   frame, annotated, next_frame, ctl_ret, sel_index, seekHist,
                   stopHist, cmds, frame_at_pause, at_pause, prior_run, only_play>>

\* play(), line 111: self.is_paused = False
PlayResume ==
    /\ ctl = "play_resume"
    /\ is_paused' = FALSE
    /\ last_cmd' = IF running /\ is_paused THEN "play_paused" ELSE "play_playing"
    /\ ctl' = "idle"
    /\ UNCHANGED <<tabVars, exportVars, codecVars, cursorVars, storeVars, video_path,
                   is_playing, should_stop, seek_position, cap, workerVars, ctl_ret,
                   sel_index, seekHist, stopHist, events, cmds, frame_at_pause,
                   at_pause, releases, prior_run, only_play>>

\* pause(), line 115
Pause ==
    /\ ctl = "idle"
    /\ video_thread # "None"
    /\ cmds < MaxCmds
    /\ cmds' = cmds + 1
    /\ is_paused' = TRUE
    /\ frame_at_pause' = IF running THEN LastFrameOf(events) ELSE -2
    /\ at_pause' = IF running THEN Progressed ELSE NoPause
    /\ last_cmd' = "pause"
    /\ prior_run' = "none"
    /\ only_play' = FALSE
    /\ UNCHANGED <<tabVars, exportVars, codecVars, cursorVars, storeVars, video_path,
                   is_playing, should_stop, seek_position, cap, workerVars, ctlVars,
                   seekHist, stopHist, events, releases>>

\* seek() that keeps a target already pending instead of overwriting it
Seek_KeepFirst(position_ms) ==
    /\ ctl = "idle"
    /\ video_thread # "None"
    /\ cmds < MaxCmds
    /\ cmds' = cmds + 1
    /\ seek_position' = IF seek_position >= 0 THEN seek_position ELSE position_ms
    /\ last_req' = position_ms
    /\ seek_idle' = (~running /\ position_ms >= 0)
    /\ nreq' = Min(nreq + 1, 2)
    /\ repos' = 0
    /\ last_cmd' = IF running /\ is_paused THEN "seek_paused" ELSE "seek"
    /\ prior_run' = "none"
    /\ only_play' = FALSE
    /\ UNCHANGED <<tabVars, exportVars, codecVars, cursorVars, storeVars, video_path,
                   is_playing, is_paused, should_stop, cap, workerVars, ctlVars,
                   batch, last_set, stopHist, events, frame_at_pause, at_pause,
                   releases>>

\* seek(position_ms), line 131
Seek(position_ms) ==
    /\ ctl = "idle"
    /\ video_thread # "None"
    /\ cmds < MaxCmds
    /\ cmds' = cmds + 1
    /\ seek_position' = position_ms
    /\ last_req' = position_ms
    /\ seek_idle' = (~running /\ position_ms >= 0)
    /\ nreq' = Min(nreq + 1, 2)
    /\ repos' = 0
    /\ last_cmd' = IF running /\ is_paused THEN "seek_paused" ELSE "seek"
    /\ prior_run' = "none"
    /\ only_play' = FALSE
    /\ UNCHANGED <<tabVars, exportVars, codecVars, cursorVars, storeVars, video_path,
                   is_playing, is_paused, should_stop, cap, workerVars, ctlVars,
                   batch, last_set, stopHist, events, frame_at_pause, at_pause,
                   releases>>

\* stop(), line 119: self.should_stop = True
StopSetFlag(after) ==
    /\ should_stop' = TRUE
    /\ stop_pending' = (stop_pending \/ running)
    /\ frame_at_pause' = -2
    /\ at_pause' = NoPause
    /\ last_cmd' = "stop"
    /\ prior_run' = "none"
    /\ only_play' = FALSE
    /\ ctl' = "stop_paused"
    /\ ctl_ret' = after

\* on_stop: the Stop button
StopBegin ==
    /\ ctl = "idle"
    /\ video_thread # "None"
    /\ cmds < MaxCmds
    /\ cmds' = cmds + 1
    /\ StopSetFlag("idle")
    /\ UNCHANGED <<tabVars, exportVars, codecVars, cursorVars, storeVars, video_path,
                   is_playing, is_paused, seek_position, cap, workerVars, sel_index,
                   seekHist, stop_returned, late_iter, events, releases>>

\* stop() leaving the pause flag as it is
StopClearPause_KeepPause ==
    /\ ctl = "stop_paused"
    /\ ctl' = "stop_check"
    /\ UNCHANGED <<tabVars, exportVars, codecVars, cursorVars, storeVars, threadVars,
                   workerVars, ctl_ret, sel_index, seekHist, stopHist, histVars>>

\* stop(), line 120: self.is_paused = False
StopClearPause ==
    /\ ctl = "stop_paused"
    /\ is_paused' = FALSE
    /\ ctl' = "stop_check"
    /\ UNCHANGED <<tabVars, exportVars, codecVars, cursorVars, storeVars, video_path,
                   is_playing, should_stop, seek_position, cap, workerVars, ctl_ret,
                   sel_index, seekHist, stopHist, histVars>>

\* stop() hands control back to its caller
StopReturn ==
    /\ ctl' = ctl_ret
    /\ stop_returned' = TRUE

\* stop() announcing the end of playback when it finds the worker not running
StopCheck_EmitsFinished ==
    /\ ctl = "stop_check"
    /\ IF running
       THEN ctl' = "stop_wait" /\ UNCHANGED <<stop_returned, events>>
       ELSE StopReturn /\ Emit("PlaybackFinished", 0)
    /\ UNCHANGED <<tabVars, exportVars, codecVars, cursorVars, storeVars, threadVars,
                   workerVars, ctl_ret, sel_index, seekHist, stop_pending, late_iter,
                   cmds, frame_at_pause, at_pause, last_cmd, prior_run, only_play,
                   releases>>

\* stop(), line 121: if self.isRunning()
StopCheck ==
    /\ ctl = "stop_check"
    /\ IF running
       THEN ctl' = "stop_wait" /\ UNCHANGED stop_returned
       ELSE StopReturn
    /\ UNCHANGED <<tabVars, exportVars, codecVars, cursorVars, storeVars, threadVars,
                   workerVars, ctl_ret, sel_index, seekHist, stop_pending, late_iter,
                   histVars>>

\* stop() without the join: wait() comes back while the worker still runs
StopWait_NoJoin ==
    /\ ctl = "stop_wait"
    /\ StopReturn
    /\ UNCHANGED <<tabVars, exportVars, codecVars, cursorVars, storeVars, threadVars,
                   workerVars, ctl_ret, sel_index, seekHist, stop_pending, late_iter,
                   histVars>>

\* stop(), line 122: self.wait() returns once the thread has finished
StopWait ==
    /\ ctl = "stop_wait"
    /\ ~running
    /\ StopReturn
    /\ UNCHANGED <<tabVars, exportVars, codecVars, cursorVars, storeVars, threadVars,
                   workerVars, ctl_ret, sel_index, seekHist, stop_pending, late_iter,
                   histVars>>

\* ------------------------------------------ control context: tab handlers
\* select_video_folder -> VideoHandler.set_directory / load_video_list
SelectVideoFolder(files) ==
    /\ ctl = "idle"
    /\ video_files' = files
    /\ current_index' = 0
    /\ UNCHANGED <<video_thread, enabled, model, exportVars, codecVars, cursorVars,
                   storeVars, threadVars, workerVars, ctlVars, seekHist, stopHist,
                   histVars>>

\* VideoHandler.goto_video(index), lines 117-120
GotoVideoOk(index) == 0 <= index /\ index < Len(video_files)

\* on_video_selected without lines 226-227: the current playback is not stopped
SelectBegin_NoStop(index) ==
    /\ ctl = "idle"
    /\ cmds < MaxCmds
    /\ cmds' = cmds + 1
    /\ sel_index' = index
    /\ ctl' = "select"
    /\ UNCHANGED <<should_stop, stop_pending, frame_at_pause, at_pause, last_cmd,
                   prior_run, only_play, ctl_ret>>
    /\ UNCHANGED <<tabVars, exportVars, codecVars, cursorVars, storeVars, video_path,
                   is_playing, is_paused, seek_position, cap, workerVars, seekHist,
                   stop_returned, late_iter, events, releases>>

\* on_video_selected, lines 226-227: stop the current playback first
SelectBegin(index) ==
    /\ ctl = "idle"
    /\ cmds < MaxCmds
    /\ cmds' = cmds + 1
    /\ sel_index' = index
    /\ IF video_thread # "None" /\ running
       THEN StopSetFlag("select")
       ELSE /\ ctl' = "select"
            /\ UNCHANGED <<should_stop, stop_pending, frame_at_pause, at_pause,
                           last_cmd, prior_run, only_play, ctl_ret>>
    /\ UNCHANGED <<tabVars, exportVars, codecVars, cursorVars, storeVars, video_path,
                   is_playing, is_paused, seek_position, cap, workerVars, seekHist,
                   stop_returned, late_iter, events, releases>>

\* lines 242-244: the new VideoThread replaces the previous one; the record of
\* what the previous one did starts afresh
CreateThread(path) ==
    /\ NewThread(path)
    /\ events' = <<>>
    /\ releases' = 0
    /\ frame_at_pause' = -2
    /\ at_pause' = NoPause
    /\ last_cmd' = "none"
    /\ prior_run' = "none"
    /\ only_play' = TRUE
    /\ stop_returned' = FALSE
    /\ nreq' = 0 /\ batch' = 0
    /\ last_req' = -1 /\ last_set' = -1 /\ repos' = 0
    /\ seek_idle' = FALSE
    /\ ret' = "none" /\ frame' = -1 /\ annotated' = FALSE /\ next_frame' = 0
    /\ delay_ms' = NoDelay

\* what CreateThread assigns, only_play apart
createdVars ==
    <<video_thread, threadVars, events, releases, frame_at_pause, at_pause, last_cmd,
      prior_run, stop_returned, seekHist, ret, frame, annotated, delay_ms,
      next_frame>>

\* on_video_selected, lines 230-254: a new VideoThread for the selected video.
\* Line 254 raises AttributeError (VideoThread defines no
\* frame_data_ready_for_export) after the thread is created and wired; the
\* handler's argument and the return point of its stop() call are then gone.
SelectCreate ==
    /\ ctl = "select"
    /\ ctl' = "idle"
    /\ IF GotoVideoOk(sel_index)
       THEN /\ current_index' = sel_index
            /\ CreateThread(video_files[sel_index + 1])
       ELSE UNCHANGED <<current_index, createdVars, only_play>>
    /\ sel_index' = 0
    /\ ctl_ret' = "idle"
    /\ UNCHANGED <<video_files, enabled, model, exportVars, codecVars, cursorVars,
                   storeVars, running, pc, stop_pending, late_iter, cmds>>

\* session data handed to restore_session_state: what it says about the video
\* folder, the model file and the export folder ("none": no entry, "missing":
\* the path does not exist, "found"; for the model "fail": load_model fails)
RestoreData ==
    { [video_folder |-> "none", model_path |-> "none", inference_enabled |-> TRUE,
       current_video_index |-> 0, export_output_dir |-> "none"],
      [video_folder |-> "found", model_path |-> "found", inference_enabled |-> FALSE,
       current_video_index |-> 0, export_output_dir |-> "found"],
      [video_folder |-> "found", model_path |-> "fail", inference_enabled |-> TRUE,
       current_video_index |-> 1, export_output_dir |-> "missing"],
      [video_folder |-> "missing", model_path |-> "missing", inference_enabled |-> TRUE,
       current_video_index |-> 0, export_output_dir |-> "none"] }

\* restore_session_state, lines 397-399: stop any current playback
RestoreBegin ==
    /\ ctl = "idle"
    /\ cmds < MaxCmds
    /\ cmds' = cmds + 1
    /\ IF video_thread # "None" /\ running
       THEN StopSetFlag("restore")
       ELSE /\ ctl' = "restore"
            /\ UNCHANGED <<should_stop, stop_pending, frame_at_pause, at_pause,
                           last_cmd, prior_run, only_play, ctl_ret>>
    /\ UNCHANGED <<tabVars, exportVars, codecVars, cursorVars, storeVars, video_path,
                   is_playing, is_paused, seek_position, cap, workerVars, sel_index,
                   seekHist, stop_returned, late_iter, events, releases>>

\* restore_session_state, lines 401-481: folder, model, enable flag, selected
\* video (on_video_selected finds no worker running here), export folder.
\* Lines 472 and 481 raise AttributeError (no has_current_video) after the
\* assignments; a missing export folder leaves export_output_dir as it was.
RestoreApply(data, files) ==
    LET listed == IF data.video_folder = "found" THEN files
                  ELSE IF data.video_folder = "none" THEN <<>>
                  ELSE video_files
        index == data.current_video_index
    IN  /\ ctl = "restore"
        /\ ctl' = "idle"
        /\ ctl_ret' = "idle"
        /\ video_files' = listed
        /\ model' = IF data.model_path = "found" THEN TRUE
                    ELSE IF data.model_path = "missing" THEN model
                    ELSE FALSE
        /\ enabled' = data.inference_enabled
        /\ IF listed # <<>> /\ index < Len(listed) /\ 0 <= index
           THEN /\ current_index' = index
                /\ CreateThread(listed[index + 1])
           ELSE /\ current_index' = IF data.video_folder = "missing"
                                    THEN current_index ELSE 0
                /\ only_play' = FALSE
                /\ UNCHANGED createdVars
        /\ export_output_dir' = IF data.export_output_dir = "found" THEN "dir"
                                ELSE IF data.export_output_dir = "none" THEN "None"
                                ELSE export_output_dir
        /\ UNCHANGED <<export_requested, fs, message, exports, refused, call,
                       running, pc, sel_index, stop_pending, late_iter, cmds,
                       codecVars, cursorVars, storeVars>>

\* closeEvent, lines 488-490: stop the playback, then accept the event; the
\* tab handles nothing afterwards (ctl stays "closed")
CloseEvent ==
    /\ ctl = "idle"
    /\ cmds < MaxCmds
    /\ cmds' = cmds + 1
    /\ IF video_thread # "None" /\ running
       THEN StopSetFlag("closed")
       ELSE /\ ctl' = "closed"
            /\ UNCHANGED <<should_stop, stop_pending, frame_at_pause, at_pause,
                           last_cmd, prior_run, only_play, ctl_ret>>
    /\ UNCHANGED <<tabVars, exportVars, codecVars, cursorVars, storeVars, video_path,
                   is_playing, is_paused, seek_position, cap, workerVars, sel_index,
                   seekHist, stop_returned, late_iter, events, releases>>

\* _on_inference_toggled -> YOLOInference.set_enabled; the checkbox signals
\* a change of its state only
OnInferenceToggled(b) ==
    /\ ctl = "idle"
    /\ b # enabled
    /\ cmds < MaxCmds
    /\ cmds' = cmds + 1
    /\ only_play' = FALSE
    /\ enabled' = b
    /\ UNCHANGED <<video_thread, video_files, current_index, model, exportVars,
                   codecVars, cursorVars, storeVars, threadVars, workerVars, ctlVars,
                   seekHist, stopHist, events, frame_at_pause, at_pause, last_cmd,
                   prior_run, releases>>

\* load_model -> YOLOInference.load_model: a failed load leaves no model
\* (loads that change nothing are left out)
LoadModel(success) ==
    /\ ctl = "idle"
    /\ success # model
    /\ cmds < MaxCmds
    /\ cmds' = cmds + 1
    /\ only_play' = FALSE
    /\ model' = success
    /\ UNCHANGED <<video_thread, video_files, current_index, enabled, exportVars,
                   codecVars, cursorVars, storeVars, threadVars, workerVars, ctlVars,
                   seekHist, stopHist, events, frame_at_pause, at_pause, last_cmd,
                   prior_run, releases>>

\* the methods class VideoHandler defines (video_handler.py, lines 9-120)
VideoHandlerMethods ==
    {"set_directory", "load_video_list", "get_current_video_path", "next_video",
     "previous_video", "get_current_index", "get_total_videos",
     "get_current_video_name", "has_videos", "get_progress_string", "goto_video"}

\* the signals and methods class VideoThread defines (video_thread.py, lines 11-153)
VideoThreadAttrs ==
    {"frame_ready", "position_changed", "duration_changed", "playback_finished",
     "error_occurred", "set_video", "set_inference_engine", "run", "play",
     "pause", "stop", "seek"}

\* on_step_forward / on_step_backward, lines 276-284: the call of a method
\* VideoThread does not define raises AttributeError; nothing reaches the worker
StepOutcome(name) ==
    IF name \in {"step_forward", "step_backward"} \ VideoThreadAttrs
    THEN "AttributeError" ELSE "stepped"

OnStep(name) ==
    /\ ctl = "idle"
    /\ video_thread # "None"
    /\ cmds < MaxCmds
    /\ cmds' = cmds + 1
    /\ message' = StepOutcome(name)
    /\ last_cmd' = IF running /\ is_paused THEN "step_paused" ELSE "step"
    /\ prior_run' = "none"
    /\ only_play' = FALSE
    /\ UNCHANGED <<tabVars, export_output_dir, export_requested, fs, exports,
                   refused, call, threadVars, workerVars, ctlVars, seekHist,
                   stopHist, events, frame_at_pause, at_pause, releases, codecVars,
                   cursorVars, storeVars>>

\* what has_current_video would answer if VideoHandler defined it
HasCurrentVideo == video_files # <<>>

\* on_export_frame, lines 201-220: the checks in order, the first that fails decides
ExportFrameOutcome ==
    IF "has_current_video" \notin VideoHandlerMethods THEN "AttributeError"
    ELSE IF ~HasCurrentVideo THEN "warn_select_video"
    ELSE IF export_output_dir = "None" THEN "warn_select_folder"
    ELSE IF video_thread = "None" \/ ~running THEN "warn_not_running"
    ELSE IF ~is_paused THEN "warn_pause_first"
    ELSE IF "request_current_frame_data" \notin VideoThreadAttrs THEN "AttributeError"
    ELSE "requested"

\* the state of the session as on_export_frame finds it
SessionState ==
    IF video_thread = "None" \/ ~running THEN "not_running"
    ELSE IF is_paused THEN "paused"
    ELSE "playing"

\* on_export_frame: the Export button
OnExportFrame ==
    /\ ctl = "idle"
    /\ cmds < MaxCmds
    /\ cmds' = cmds + 1
    /\ only_play' = FALSE
    /\ message' = ExportFrameOutcome
    /\ export_requested' = (export_requested \/ ExportFrameOutcome = "requested")
    /\ UNCHANGED <<tabVars, export_output_dir, fs, exports, refused, call,
                   threadVars, workerVars, ctlVars, seekHist, stopHist, events,
                   frame_at_pause, at_pause, last_cmd, prior_run, releases,
                   codecVars, cursorVars, storeVars>>

\* select_export_folder, lines 190-194 (line 197 then raises AttributeError:
\* VideoHandler defines no has_current_video)
SelectExportFolder ==
    /\ ctl = "idle"
    /\ export_output_dir' = "dir"
    /\ UNCHANGED <<tabVars, export_requested, fs, message, exports, refused, call,
                   threadVars, workerVars, ctlVars, seekHist, stopHist, histVars,
                   codecVars, cursorVars, storeVars>>

\* ---------------------------------------------------------- export handler
\* convert_results_to_yolo_strings: one "class_id coords" line per instance;
\* a line is written <<class id, index of the polygon>>
convert_results_to_yolo_strings(results) ==
    IF Len(results.cls) > 0 /\ results.masks
    THEN IF results.npolys # Len(results.cls)
         THEN <<>>
         ELSE [i \in 1..Len(results.cls) |-> <<results.cls[i], i>>]
    ELSE <<>>

\* the label file of frame n after open(label_path, 'w') and the writes
WriteLabel(dir, n, strings) ==
    [dir EXCEPT !.labels = @ \cup {n}, !.lines[n] = strings]

\* no label file when there is no result at all (the elif of line 357 left out)
SaveLabels_NoEmpty(dir, n, results, label_io) ==
    IF enabled /\ results.present
    THEN IF label_io = "raise"
         THEN [fs |-> dir, message |-> "warn_labels"]
         ELSE [fs |-> WriteLabel(dir, n, convert_results_to_yolo_strings(results)),
               message |-> "success"]
    ELSE [fs |-> dir, message |-> "success"]

\* the label file written whether or not inference is enabled
SaveLabels_Always(dir, n, results, label_io) ==
    IF label_io = "raise"
    THEN [fs |-> dir, message |-> "warn_labels"]
    ELSE IF results.present
    THEN [fs |-> WriteLabel(dir, n, convert_results_to_yolo_strings(results)),
          message |-> "success"]
    ELSE [fs |-> WriteLabel(dir, n, <<>>), message |-> "success"]

\* the label file made to depend on a loaded model as well
SaveLabels_NeedsModel(dir, n, results, label_io) ==
    IF enabled /\ model
    THEN IF label_io = "raise"
         THEN [fs |-> dir, message |-> "warn_labels"]
         ELSE IF results.present
         THEN [fs |-> WriteLabel(dir, n, convert_results_to_yolo_strings(results)),
               message |-> "success"]
         ELSE [fs |-> WriteLabel(dir, n, <<>>), message |-> "success"]
    ELSE [fs |-> dir, message |-> "success"]

\* lines 335-364: the label file, after the image was handled
SaveLabels(dir, n, results, label_io) ==
    IF enabled
    THEN IF label_io = "raise"
         THEN [fs |-> dir, message |-> "warn_labels"]
         ELSE IF results.present
         THEN [fs |-> WriteLabel(dir, n, convert_results_to_yolo_strings(results)),
               message |-> "success"]
         ELSE [fs |-> WriteLabel(dir, n, <<>>), message |-> "success"]
    ELSE [fs |-> dir, message |-> "success"]

\* the handler creating images/ and labels/ before it tests its arguments
ExportData_DirsFirst(frame_np, frame_number, results, imwrite, label_io) ==
    LET made == [fs EXCEPT !.dirs = {"images", "labels"}]
        saved == [made EXCEPT !.images = @ \cup {frame_number}]
    IN  IF export_output_dir = "None" \/ frame_np = "None"
        THEN [fs |-> made, message |-> "critical_missing"]
        ELSE IF imwrite = "raise"
        THEN [fs |-> made, message |-> "critical_image"]
        ELSE SaveLabels(IF imwrite = "ok" THEN saved ELSE made,
                        frame_number, results, label_io)

\* lines 311-367: what the handler leaves in the directory and what it reports.
\* imwrite is "ok", "false" (cv2.imwrite returns False, nothing written) or
\* "raise"; label_io is "ok" or "raise" (open(label_path, 'w') fails).
ExportData(frame_np, frame_number, results, imwrite, label_io) ==
    IF export_output_dir = "None" \/ frame_np = "None"
    THEN [fs |-> fs, message |-> "critical_missing"]
    ELSE LET made == [fs EXCEPT !.dirs = {"images", "labels"}]
             saved == [made EXCEPT !.images = @ \cup {frame_number}]
         IN  IF imwrite = "raise"
             THEN [fs |-> made, message |-> "critical_image"]
             ELSE SaveLabels(IF imwrite = "ok" THEN saved ELSE made,
                             frame_number, results, label_io)

\* _handle_frame_export_data(frame_np, frame_number, video_name, results)
HandleFrameExportData(frame_np, frame_number, results, imwrite, label_io) ==
    /\ ctl = "idle"
    /\ exports < MaxExports
    /\ exports' = exports + 1
    /\ refused' = (export_output_dir = "None" \/ frame_np = "None")
    /\ call' = [frame_number |-> frame_number, results |-> results,
                imwrite |-> imwrite, label_io |-> label_io, enabled |-> enabled]
    /\ fs' = ExportData(frame_np, frame_number, results, imwrite, label_io).fs
    /\ message' = ExportData(frame_np, frame_number, results, imwrite, label_io).message
    /\ UNCHANGED <<tabVars, export_output_dir, export_requested, threadVars,
                   workerVars, ctlVars, seekHist, stopHist, histVars, codecVars,
                   cursorVars, storeVars>>

\* the handler called with a frame, and called without one (line 312 then
\* returns before any other argument is read)
ExportCall ==
    \/ \E frame_number \in FrameNumbers, results \in Results,
          imwrite \in {"ok", "false", "raise"}, label_io \in {"ok", "raise"} :
           HandleFrameExportData("frame", frame_number, results, imwrite, label_io)
    \/ HandleFrameExportData("None", 0, NoResult, "ok", "ok")

Control ==
    \/ PlayTest \/ PlayStart \/ PlayResume \/ Pause
    \/ \E position_ms \in SeekTargets : Seek(position_ms)
    \/ StopBegin \/ StopClearPause \/ StopCheck \/ StopWait
    \/ \E files \in FolderContents : SelectVideoFolder(files)
    \/ \E index \in Indexes : SelectBegin(index)
    \/ SelectCreate
    \/ RestoreBegin
    \/ \E data \in RestoreData, files \in FolderContents : RestoreApply(data, files)
    \/ CloseEvent
    \/ \E b \in BOOLEAN : OnInferenceToggled(b)
    \/ \E success \in BOOLEAN : LoadModel(success)
    \/ OnExportFrame
    \/ \E name \in {"step_forward", "step_backward"} : OnStep(name)

Next == Worker \/ Control

Spec == Init /\ [][Next]_vars

\* the steps by which a handler that has begun runs on to its end
Continue ==
    \/ PlayStart \/ PlayResume
    \/ StopClearPause \/ StopCheck \/ StopWait
    \/ SelectCreate
    \/ \E data \in RestoreData, files \in FolderContents : RestoreApply(data, files)

\* the worker thread is scheduled while it can take a step, and a handler
\* that has begun goes on; no command is ever bound to come
FairSpec == Spec /\ WF_vars(Worker) /\ WF_vars(Continue)

\* the export path on its own: the handler applied to every input
ExportNext ==
    \/ SelectExportFolder
    \/ ExportCall
    \/ OnExportFrame
    \/ \E b \in BOOLEAN : OnInferenceToggled(b)

ExportSpec == Init /\ [][ExportNext]_vars

\* the export path with a model loaded into the engine or unloaded
ExportEngineNext ==
    \/ ExportNext
    \/ \E success \in BOOLEAN : LoadModel(success)

ExportEngineSpec == Init /\ [][ExportEngineNext]_vars

\* ------------------- media lists: utils/video_handler.py, utils/file_handler.py
\* Directories handed to the handlers: "None" (no directory given), "gone"
\* (the path does not exist) and three that exist, with the names
\* os.listdir finds in them.
Directories == {"None", "gone", "bare", "solo", "mixed"}
ListDir(dir) ==
    IF dir = "bare" THEN {"notes.txt"}
    ELSE IF dir = "solo" THEN {"v.mkv", "i.bmp"}
    ELSE IF dir = "mixed" THEN {"b.mp4", "a.MOV", "c.txt", "d.jpg", "e.PNG", "f.avi"}
    ELSE {}
PathExists(dir) == dir \in {"bare", "solo", "mixed"}

\* the names above in the order of sorted()
SortedNames ==
    <<"a.MOV", "b.mp4", "c.txt", "d.jpg", "e.PNG", "f.avi", "i.bmp", "notes.txt",
      "v.mkv">>
sorted(names) == SelectSeq(SortedNames, LAMBDA n : n \in names)

\* Path(file).suffix.lower()
SuffixLower(file) ==
    CASE file = "a.MOV" -> ".mov"
      [] file = "b.mp4" -> ".mp4"
      [] file = "d.jpg" -> ".jpg"
      [] file = "e.PNG" -> ".png"
      [] file = "f.avi" -> ".avi"
      [] file = "i.bmp" -> ".bmp"
      [] file = "v.mkv" -> ".mkv"
      [] OTHER -> ".txt"

VIDEO_EXTENSIONS == {".mp4", ".avi", ".mov", ".mkv"}
IMAGE_EXTENSIONS == {".jpg", ".jpeg", ".png", ".bmp", ".tiff", ".tif"}

\* the list load_video_list / load_image_list builds (lines 34-43 / 37-47)
LoadList(dir, extensions) ==
    IF dir = "None" \/ ~PathExists(dir) THEN <<>>
    ELSE SelectSeq(sorted(ListDir(dir)), LAMBDA file : SuffixLower(file) \in extensions)

\* indexes handed to goto_video / goto_image
GotoIndexes == -1..3

\* VideoHandler.set_directory -> load_video_list, lines 29-45
set_directory(videos_dir) ==
    /\ video_files' = LoadList(videos_dir, VIDEO_EXTENSIONS)
    /\ current_index' = 0
    /\ nav' = Nav("VideoHandler", "load", 0, current_index, TRUE)
    /\ UNCHANGED <<video_thread, enabled, model, exportVars, codecVars, threadVars,
                   workerVars, ctlVars, seekHist, stopHist, histVars, image_files,
                   image_index, storeVars>>

\* VideoHandler.next_video, lines 60-66
next_video ==
    LET moved == video_files # <<>> /\ current_index < Len(video_files) - 1
    IN  /\ current_index' = IF moved THEN current_index + 1 ELSE current_index
        /\ nav' = Nav("VideoHandler", "next", 0, current_index, moved)
        /\ UNCHANGED <<video_thread, video_files, enabled, model, exportVars,
                       codecVars, threadVars, workerVars, ctlVars, seekHist,
                       stopHist, histVars, image_files, image_index, storeVars>>

\* VideoHandler.previous_video, lines 75-81
previous_video ==
    LET moved == video_files # <<>> /\ current_index > 0
    IN  /\ current_index' = IF moved THEN current_index - 1 ELSE current_index
        /\ nav' = Nav("VideoHandler", "previous", 0, current_index, moved)
        /\ UNCHANGED <<video_thread, video_files, enabled, model, exportVars,
                       codecVars, threadVars, workerVars, ctlVars, seekHist,
                       stopHist, histVars, image_files, image_index, storeVars>>

\* goto_video taking the length of the list for a valid index
goto_video_UpToLen(index) ==
    LET moved == 0 <= index /\ index <= Len(video_files)
    IN  /\ current_index' = IF moved THEN index ELSE current_index
        /\ nav' = Nav("VideoHandler", "goto", index, current_index, moved)
        /\ UNCHANGED <<video_thread, video_files, enabled, model, exportVars,
                       codecVars, threadVars, workerVars, ctlVars, seekHist,
                       stopHist, histVars, image_files, image_index, storeVars>>

\* VideoHandler.goto_video(index), lines 117-120
goto_video(index) ==
    LET moved == GotoVideoOk(index)
    IN  /\ current_index' = IF moved THEN index ELSE current_index
        /\ nav' = Nav("VideoHandler", "goto", index, current_index, moved)
        /\ UNCHANGED <<video_thread, video_files, enabled, model, exportVars,
                       codecVars, threadVars, workerVars, ctlVars, seekHist,
                       stopHist, histVars, image_files, image_index, storeVars>>

\* FileHandler.set_directories -> load_image_list, lines 31-49
set_directories(images_dir) ==
    /\ image_files' = LoadList(images_dir, IMAGE_EXTENSIONS)
    /\ image_index' = 0
    /\ nav' = Nav("FileHandler", "load", 0, image_index, TRUE)
    /\ UNCHANGED <<tabVars, exportVars, codecVars, threadVars, workerVars, ctlVars,
                   seekHist, stopHist, histVars, storeVars>>

\* FileHandler.next_image, lines 72-78
next_image ==
    LET moved == image_files # <<>> /\ image_index < Len(image_files) - 1
    IN  /\ image_index' = IF moved THEN image_index + 1 ELSE image_index
        /\ nav' = Nav("FileHandler", "next", 0, image_index, moved)
        /\ UNCHANGED <<tabVars, exportVars, codecVars, threadVars, workerVars,
                       ctlVars, seekHist, stopHist, histVars, image_files, storeVars>>

\* FileHandler.previous_image, lines 87-93
previous_image ==
    LET moved == image_files # <<>> /\ image_index > 0
    IN  /\ image_index' = IF moved THEN image_index - 1 ELSE image_index
        /\ nav' = Nav("FileHandler", "previous", 0, image_index, moved)
        /\ UNCHANGED <<tabVars, exportVars, codecVars, threadVars, workerVars,
                       ctlVars, seekHist, stopHist, histVars, image_files, storeVars>>

\* FileHandler.goto_image(index), lines 129-132
goto_image(index) ==
    LET moved == 0 <= index /\ index < Len(image_files)
    IN  /\ image_index' = IF moved THEN index ELSE image_index
        /\ nav' = Nav("FileHandler", "goto", index, image_index, moved)
        /\ UNCHANGED <<tabVars, exportVars, codecVars, threadVars, workerVars,
                       ctlVars, seekHist, stopHist, histVars, image_files, storeVars>>

\* the two handlers called in any order
HandlerNext ==
    \/ \E videos_dir \in Directories : set_directory(videos_dir)
    \/ next_video
    \/ previous_video
    \/ \E index \in GotoIndexes : goto_video(index)
    \/ \E images_dir \in Directories : set_directories(images_dir)
    \/ next_image
    \/ previous_image
    \/ \E index \in GotoIndexes : goto_image(index)

HandlerSpec == Init /\ [][HandlerNext]_vars

\* ------------------------------------ annotation codec: utils/yolo_format.py
\* A str is a sequence of characters.  A float is an integer counting units
\* of 10^-(Decimals+1): one decimal more than the format keeps, so that the
\* rounding of the format shows.
Decimals == 6
Unit == 10 ^ (Decimals + 1)
\* points of an annotation
MaxPoints == 2

Digits == <<"0", "1", "2", "3", "4", "5", "6", "7", "8", "9">>
DigitChar(d) == Digits[d + 1]
IsDigit(ch) == \E d \in 0..9 : DigitChar(d) = ch
DigitValue(ch) == CHOOSE d \in 0..9 : DigitChar(d) = ch

\* str(n) of an int
RECURSIVE IntStr(_)
IntStr(n) ==
    IF n < 0 THEN <<"-">> \o IntStr(-n)
    ELSE IF n < 10 THEN <<DigitChar(n)>>
    ELSE IntStr(n \div 10) \o <<DigitChar(n % 10)>>

\* the coordinate printed with one decimal less than the format string asks for
FloatStr_Short(x) ==
    LET m == (x + 50) \div 100
        frac == m % (10 ^ (Decimals - 1))
    IN  IntStr(m \div (10 ^ (Decimals - 1))) \o <<".">>
        \o [i \in 1..(Decimals - 1) |->
               DigitChar((frac \div (10 ^ (Decimals - 1 - i))) % 10)]

\* f'{x:.6f}' of x >= 0: rounded to Decimals decimals, all of them printed
FloatStr(x) ==
    LET m == (x + 5) \div 10
        frac == m % (10 ^ Decimals)
    IN  IntStr(m \div (10 ^ Decimals)) \o <<".">>
        \o [i \in 1..Decimals |-> DigitChar((frac \div (10 ^ (Decimals - i))) % 10)]

\* ' '.join(f'{x:.6f} {y:.6f}' for x, y in points)
RECURSIVE JoinPoints(_)
JoinPoints(points) ==
    IF points = <<>> THEN <<>>
    ELSE LET p == points[1]
             head == FloatStr(p[1]) \o <<" ">> \o FloatStr(p[2])
         IN  IF Len(points) = 1 THEN head
             ELSE head \o <<" ">> \o JoinPoints(Tail(points))

\* YOLOAnnotation.to_yolo_string, lines 22-25
to_yolo_string(a) == IntStr(a.class_id) \o <<" ">> \o JoinPoints(a.points)

\* str.split(): the maximal runs of characters other than whitespace
RECURSIVE Split(_, _, _)
Split(s, word, acc) ==
    IF s = <<>>
    THEN IF word = <<>> THEN acc ELSE Append(acc, word)
    ELSE IF s[1] = " "
    THEN Split(Tail(s), <<>>, IF word = <<>> THEN acc ELSE Append(acc, word))
    ELSE Split(Tail(s), Append(word, s[1]), acc)

\* the value of a run of digits read as a decimal number
RECURSIVE DigitsValue(_)
DigitsValue(word) ==
    IF word = <<>> THEN 0
    ELSE 10 * DigitsValue(SubSeq(word, 1, Len(word) - 1)) + DigitValue(word[Len(word)])

AllDigits(word) == word # <<>> /\ \A i \in 1..Len(word) : IsDigit(word[i])

\* int(word) succeeds: an optional sign and digits
IsInt(word) ==
    IF word # <<>> /\ word[1] = "-" THEN AllDigits(Tail(word)) ELSE AllDigits(word)
IntOf(word) ==
    IF word[1] = "-" THEN 0 - DigitsValue(Tail(word)) ELSE DigitsValue(word)

\* float(word) succeeds: digits, or digits "." digits with at most
\* Decimals + 1 decimals (the numbers a float of the model can hold)
DotAt(word) == {i \in 1..Len(word) : word[i] = "."}
IsFloat(word) ==
    \/ AllDigits(word)
    \/ \E i \in DotAt(word) :
          /\ AllDigits(SubSeq(word, 1, i - 1))
          /\ AllDigits(SubSeq(word, i + 1, Len(word)))
          /\ Len(word) - i <= Decimals + 1
FloatOf(word) ==
    IF DotAt(word) = {} THEN DigitsValue(word) * Unit
    ELSE LET i == CHOOSE j \in DotAt(word) : TRUE
             nfrac == Len(word) - i
         IN  DigitsValue(SubSeq(word, 1, i - 1)) * Unit
             + DigitsValue(SubSeq(word, i + 1, Len(word))) * 10 ^ (Decimals + 1 - nfrac)

\* YOLOAnnotation.from_yolo_string, lines 28-41
from_yolo_string(s) ==
    LET parts == Split(s, <<>>, <<>>)
        coords == Tail(parts)
    IN  IF Len(parts) < 3 THEN ValueError
        ELSE IF ~IsInt(parts[1]) THEN ValueError
        ELSE IF \E i \in 1..Len(coords) : ~IsFloat(coords[i]) THEN ValueError
        ELSE IF Len(coords) % 2 # 0 THEN ValueError
        ELSE Annotation(IntOf(parts[1]),
                        [k \in 1..(Len(coords) \div 2) |->
                            <<FloatOf(coords[2 * k - 1]), FloatOf(coords[2 * k])>>])

\* class ids and coordinates of the annotations encoded: 0, 0.123456, 1 and
\* two values of seven decimals
AnnotationClassIds == {0, 7, 12}
Coordinates == {0, 1234560, Unit, 1234561, 1234567}
PointLists == SeqsUpTo(Coordinates \X Coordinates, MaxPoints)

\* YOLOAnnotation(class_id, points), lines 13-20
NewAnnotation(class_id, points) ==
    /\ codec_pc = "none"
    /\ annotation' = Annotation(class_id, points)
    /\ codec_pc' = "new"
    /\ UNCHANGED <<line, parsed>>
    /\ UNCHANGED <<tabVars, exportVars, threadVars, workerVars, ctlVars, seekHist,
                   stopHist, histVars, cursorVars, storeVars>>

\* line = annotation.to_yolo_string()
Encode ==
    /\ codec_pc = "new"
    /\ line' = to_yolo_string(annotation)
    /\ codec_pc' = "encoded"
    /\ UNCHANGED <<annotation, parsed>>
    /\ UNCHANGED <<tabVars, exportVars, threadVars, workerVars, ctlVars, seekHist,
                   stopHist, histVars, cursorVars, storeVars>>

\* YOLOAnnotation.from_yolo_string(line)
Parse ==
    /\ codec_pc = "encoded"
    /\ parsed' = from_yolo_string(line)
    /\ codec_pc' = "parsed"
    /\ UNCHANGED <<annotation, line>>
    /\ UNCHANGED <<tabVars, exportVars, threadVars, workerVars, ctlVars, seekHist,
                   stopHist, histVars, cursorVars, storeVars>>

CodecNext ==
    \/ /\ codec_pc = "none"
       /\ \E class_id \in AnnotationClassIds, points \in PointLists :
             NewAnnotation(class_id, points)
    \/ Encode
    \/ Parse

CodecSpec == Init /\ [][CodecNext]_vars

\* ------------------- annotation file: load_annotations / save_annotations
\* annotations of a list handed to save_annotations
MaxAnnotations == 2

\* str.strip(): leading and trailing whitespace removed
RECURSIVE StripLeft(_)
StripLeft(s) == IF s # <<>> /\ s[1] = " " THEN StripLeft(Tail(s)) ELSE s
RECURSIVE StripRight(_)
StripRight(s) ==
    IF s # <<>> /\ s[Len(s)] = " " THEN StripRight(SubSeq(s, 1, Len(s) - 1)) ELSE s
strip(s) == StripRight(StripLeft(s))

\* the loop of load_annotations, lines 70-77: blank lines are passed over,
\* a line on which from_yolo_string raises ValueError is reported and skipped
RECURSIVE LoadLines(_)
LoadLines(lines) ==
    IF lines = <<>> THEN <<>>
    ELSE LET stripped == strip(lines[1])
             rest == LoadLines(Tail(lines))
         IN  IF stripped = <<>> THEN rest
             ELSE IF from_yolo_string(stripped).error THEN rest
             ELSE <<from_yolo_string(stripped)>> \o rest

\* the annotations saved: with no point, with one point, with two points of
\* which two coordinates have seven decimals
StoreClassIds == {0, 12}
StorePointLists ==
    {<<>>, <<<<0, Unit>>>>, <<<<1234560, 1234561>>, <<1234567, 0>>>>}
StoreAnnotations == {Annotation(c, p) : c \in StoreClassIds, p \in StorePointLists}
AnnotationLists == SeqsUpTo(StoreAnnotations, MaxAnnotations)

\* files another program left at annotation_path, with the annotations of
\* their valid lines: one of blank, valid and invalid lines (too few fields,
\* an odd number of coordinates, a class id and a coordinate that are no
\* numbers), an empty one, one without a valid line
HalfHalf == Annotation(0, <<<<5000000, 5000000>>>>)
OtherFiles ==
    { [lines |-> << <<" ", " ">>,
                    <<" ">> \o to_yolo_string(HalfHalf) \o <<" ", " ">>,
                    <<>>,
                    <<"a", "b", "c">>,
                    IntStr(7) \o <<" ">> \o FloatStr(1000000),
                    to_yolo_string(HalfHalf) \o <<" ">> \o FloatStr(3000000),
                    <<"x", " ", "0", ".", "5", " ", "0", ".", "5">>,
                    <<"7", " ", "0", ".", "5", " ", "y">>,
                    <<"1", "2", " ", "1", " ", "0">> >>,
       annotations |-> <<HalfHalf, Annotation(12, <<<<Unit, 0>>>>)>>],
      [lines |-> <<>>, annotations |-> <<>>],
      [lines |-> << <<"7">>, <<>> >>, annotations |-> <<>>] }

\* save_annotations leaving an empty file for an empty list
save_annotations_EmptyFile(annotations) ==
    /\ store' = File([i \in 1..Len(annotations) |-> to_yolo_string(annotations[i])])
    /\ put' = Put("save", annotations, store.exists)
    /\ store_pc' = "saved"
    /\ loaded' = NoLoaded
    /\ UNCHANGED <<tabVars, exportVars, threadVars, workerVars, ctlVars, seekHist,
                   stopHist, histVars, codecVars, cursorVars>>

\* save_annotations(annotation_path, annotations), lines 90-101
save_annotations(annotations) ==
    /\ store' = IF annotations = <<>> THEN NoFile
                ELSE File([i \in 1..Len(annotations) |->
                              to_yolo_string(annotations[i])])
    /\ put' = Put("save", annotations, store.exists)
    /\ store_pc' = "saved"
    /\ loaded' = NoLoaded
    /\ UNCHANGED <<tabVars, exportVars, threadVars, workerVars, ctlVars, seekHist,
                   stopHist, histVars, codecVars, cursorVars>>

\* load_annotations(annotation_path), lines 65-79
load_annotations ==
    /\ loaded' = IF ~store.exists THEN Loaded(FALSE, <<>>)
                 ELSE Loaded(FALSE, LoadLines(store.lines))
    /\ store_pc' = "loaded"
    /\ UNCHANGED <<store, put>>
    /\ UNCHANGED <<tabVars, exportVars, threadVars, workerVars, ctlVars, seekHist,
                   stopHist, histVars, codecVars, cursorVars>>

\* another program writes the file
WriteOtherFile(file) ==
    /\ store' = File(file.lines)
    /\ put' = Put("other", file.annotations, store.exists)
    /\ store_pc' = "written"
    /\ loaded' = NoLoaded
    /\ UNCHANGED <<tabVars, exportVars, threadVars, workerVars, ctlVars, seekHist,
                   stopHist, histVars, codecVars, cursorVars>>

StoreNext ==
    \/ \E annotations \in AnnotationLists : save_annotations(annotations)
    \/ load_annotations
    \/ \E file \in OtherFiles : WriteOtherFile(file)

StoreSpec == Init /\ [][StoreNext]_vars


\* ================================================================= claims
StopPcs == {"stop_paused", "stop_check", "stop_wait"}

\* C1: once stop() has returned, and until the next play(), the worker thread
\* is not running, holds no open decode resource and emits no event.
StopReturnsQuiescent ==
    /\ [](stop_returned => (~running /\ pc = "idle" /\ cap # "open"))
    /\ [][(stop_returned /\ stop_returned') => events' = events]_vars

\* stop() has returned after frames were played
StopReturnedAfterFrames ==
    /\ stop_returned /\ ctl = "idle"
    /\ Count(events, "FrameReady") > 0
    /\ cap = "None"

\* C2: no frame is decoded in a loop iteration that began after stop() set
\* the stop flag on a running worker.
NoDecodeAfterStop == ~(late_iter /\ pc = "L82")

\* C3: every step of a stop() issued while the worker is not running (a second
\* stop, a stop before any play, a stop after the end of the video) leaves the
\* event log, the worker and the decode resource as they were: no event, the
\* worker stopped, nothing held.
StopIdempotent ==
    [][((ctl \in StopPcs \/ ctl' \in StopPcs) /\ ~running)
         => (events' = events /\ ~running' /\ pc' = pc /\ cap' = cap /\ cap # "open")]_vars

\* a second stop() is under way after a first one returned from an ended run
SecondStopUnderWay ==
    /\ ctl = "stop_check" /\ stop_returned /\ ~running
    /\ events # <<>>

\* C4: when the loop reads a frame and no seek was issued since it last tested
\* seek_position, the most recently requested target (>= 0) is the position
\* the media source was last repositioned to.
LatestSeekAppliedBeforeRead ==
    (pc \in {"L82", "L78"} /\ nreq = 0 /\ last_req >= 0) => (last_set = last_req)

\* C5: two seeks issued before the loop tests seek_position cause one
\* reposition, to the later target; no seek causes more than one reposition.
CoalescedSeek ==
    /\ repos <= 1
    /\ (pc = "L66" /\ batch >= 2 /\ nreq = 0) => (last_set = last_req /\ repos = 1)

\* the loop has just repositioned once, to 100, for two seeks it found pending
TwoSeeksOneReposition ==
    /\ pc = "L66" /\ batch = 2 /\ nreq = 0
    /\ last_set = 100 /\ repos = 1

\* C6: in a run PlaybackFinished is emitted at most once and is the last
\* event; once read() has reported the end it has been emitted and the loop
\* has been left.
EndOfStreamOnce ==
    /\ Count(events, "PlaybackFinished") <= 1
    /\ \A i \in 1..Len(events) :
          events[i].type = "PlaybackFinished" => i = Len(events)
    /\ (ret = "end" /\ pc # "L78")
          => (/\ Count(events, "PlaybackFinished") = 1
              /\ pc \in {"L101", "L104", "Lret", "idle"})

\* a run played every frame, reported the end and terminated
PlayedToTheEnd ==
    /\ ~running /\ ret = "end"
    /\ Count(events, "FrameReady") = NumFrames
    /\ Count(events, "PlaybackFinished") = 1

\* C7: when run() returns, on whatever path, the decode resource has been
\* released exactly once and is not held.
ReleasedExactlyOnce == (pc = "Lret") => (releases = 1 /\ cap # "open")

\* C8: while a pause issued to a running worker with a frame on screen is in
\* force, the last frame delivered (the one an export would capture) is the
\* frame that was on screen when pause() was issued.
PauseKeepsFrame ==
    (frame_at_pause >= 0) => (LastFrameOf(events) = frame_at_pause)

\* C9: an export requested while the session is playing is refused with the
\* "pause first" precondition warning; no request reaches the worker and
\* nothing is written.
ExportWhilePlayingRefused ==
    [][(OnExportFrame /\ SessionState = "playing")
         => (/\ message' = "warn_pause_first"
             /\ ~export_requested'
             /\ fs' = fs)]_vars

\* C10: an export whose precondition fails (no destination directory, no
\* frame) is refused and leaves the export directory as it was; the Export
\* button hands nothing to the worker and writes nothing.
ExportRefusedNoWrites ==
    [][/\ (exports' # exports /\ refused')
           => (fs' = fs /\ message' = "critical_missing")
       /\ OnExportFrame => (fs' = fs /\ ~export_requested')]_vars

\* an export was refused, for want of a frame, with the directory chosen
RefusedWithDirectoryChosen ==
    /\ exports > 0 /\ refused /\ message = "critical_missing"
    /\ export_output_dir = "dir"
    /\ fs = EmptyDir


\* C11: a VideoThread is created (by a selection or a restored session), and
\* the tab is closed, only when the previous worker has been stopped and
\* joined: it is not running and has left run(), so the events of the old and
\* the new worker cannot interleave.
OneWorkerAtATime ==
    (ctl \in {"select", "restore", "closed"}) => (~running /\ pc = "idle")

\* a selection stopped a worker that had played frames and is about to create
\* the next VideoThread
SelectStoppedWorker ==
    /\ ctl = "select" /\ ctl_ret = "select" /\ stop_returned
    /\ Count(events, "FrameReady") > 0
    /\ GotoVideoOk(sel_index)


\* an event of the current run shows a frame or the end of the video
Progress ==
    \E i \in 1..Len(events) : events[i].type \in {"FrameReady", "PlaybackFinished"}

\* C12: after play() started the worker of an idle session on a video that
\* opens, and unless another command follows, the run eventually emits a
\* FrameReady or a PlaybackFinished event.
PlayOnIdleDecodes ==
    (last_cmd = "play_idle" /\ Openable(video_path))
        ~> (last_cmd # "play_idle" \/ Progress)

\* C13: once play() has acted on a paused session (worker running, pause flag
\* set) and until the next command, the pause flag is clear and the run is
\* the one that was paused: it reported its duration at most once and holds
\* the media source it opened.
PlayOnPausedResumes ==
    (last_cmd = "play_paused" /\ ctl = "idle")
        => (/\ ~is_paused
            /\ Count(events, "DurationChanged") <= 1
            /\ releases = 0)


\* C14: a loop iteration that finds the pause flag set goes to the poll sleep
\* and from there back to the loop test: it reads no frame, emits no event and
\* keeps the media source open and the worker running; the loop is left at
\* its test only after stop() has set the stop flag.
PausedLoopIdles ==
    /\ [][(pc = "L69" /\ is_paused /\ pc' # pc) => pc' = "L70"]_vars
    /\ [][(pc = "L70" /\ pc' # pc)
            => (/\ pc' = "L62"
                /\ events' = events /\ next_frame' = next_frame /\ frame' = frame
                /\ cap = "open" /\ cap' = cap /\ running')]_vars
    /\ [][(pc = "L62" /\ pc' = "L101") => stop_pending]_vars

\* the worker polls the pause flag after it has shown a frame
PausedPolling ==
    /\ pc = "L70" /\ is_paused /\ last_cmd = "pause"
    /\ Count(events, "FrameReady") > 0

\* C15: when the last command is a seek issued to a paused, running worker
\* and the loop has tested seek_position since, then at the pause poll the
\* media source stands at the requested target, the pending seek is cleared,
\* the pause flag is still set and no frame was read past the target.
SeekWhilePausedApplied ==
    (last_cmd = "seek_paused" /\ pc = "L70" /\ nreq = 0 /\ last_req >= 0)
        => (/\ last_set = last_req
            /\ seek_position = NoSeek
            /\ is_paused
            /\ next_frame = SeekFrame(last_req, video_path))

\* C16: a step button pressed while the session is paused is carried out:
\* the handler does not end in an exception.
StepCarriedOut ==
    (last_cmd = "step_paused") => (message = "stepped")

\* C17: on a video that does not open the worker never plays: is_playing is
\* false, no media source is open, the worker is only ever at the open or at
\* the return, and the events of the run are the one Error event, emitted
\* by the time run() returns.
OpenFailureOnlyError ==
    (video_thread # "None" /\ ~Openable(video_path))
        => (/\ ~is_playing /\ cap # "open"
            /\ pc \in {"idle", "L42", "Lret"}
            /\ events \in {<<>>, <<Event("Error", video_path)>>}
            /\ pc = "L42" => events = <<>>
            /\ pc = "Lret" => events = <<Event("Error", video_path)>>)

\* a run on the video that does not open has ended
OpenFailureReported ==
    /\ video_path = "broken" /\ ~running /\ pc = "idle"
    /\ events = <<Event("Error", "broken")>>
    /\ ~is_playing

\* the events a run emits for n frames, by type: the duration, then a
\* FrameReady/PositionChanged pair per frame, then the end
ExpectedType(i, n) ==
    IF i = 1 THEN "DurationChanged"
    ELSE IF i = 2 * n + 2 THEN "PlaybackFinished"
    ELSE IF i % 2 = 0 THEN "FrameReady" ELSE "PositionChanged"

\* C18: on a video with fps > 0 whose n frames decode and convert, with no
\* model loaded and no command but Play, the events of a run are at every
\* moment a prefix of: DurationChanged(int(n / fps * 1000)), then for each
\* frame in order FrameReady (not annotated) and PositionChanged with
\* strictly increasing positions, then PlaybackFinished; once read() has
\* reported the end the sequence is complete.  No Error event occurs.
PlainRunEvents ==
    (only_play /\ ~model /\ video_path = "clip")
        => LET n == FrameCountOf(video_path)
           IN  /\ Len(events) <= 2 * n + 2
               /\ \A i \in 1..Len(events) :
                     /\ events[i].type = ExpectedType(i, n)
                     /\ i = 1 => events[i].val = (n * 1000) \div FpsOf(video_path)
                     /\ events[i].type = "FrameReady"
                           => events[i].val = <<(i \div 2) - 1, FALSE>>
               /\ \A i, j \in 1..Len(events) :
                     (/\ i < j
                      /\ events[i].type = "PositionChanged"
                      /\ events[j].type = "PositionChanged")
                        => events[i].val < events[j].val
               /\ (ret = "end" /\ pc # "L78") => Len(events) = 2 * n + 2

\* the plain run has ended with its full sequence of events
PlainRunComplete ==
    /\ only_play /\ ~model /\ video_path = "clip"
    /\ ~running /\ ret = "end"
    /\ Len(events) = 2 * NumFrames + 2

\* C19: in the events of a run every PositionChanged directly follows the
\* FrameReady of the same frame, and every FrameReady is directly followed
\* by a PositionChanged (or is the last event while the worker is about to
\* emit the position).
FrameThenPosition ==
    \A i \in 1..Len(events) :
        /\ events[i].type = "PositionChanged"
              => (/\ i > 1
                  /\ events[i - 1].type = "FrameReady"
                  /\ events[i].val = PosMsec(events[i - 1].val[1], video_path))
        /\ events[i].type = "FrameReady"
              => IF i < Len(events)
                 THEN events[i + 1].type = "PositionChanged"
                 ELSE pc = "L92"


\* C20: an export handled while inference is disabled (directory set, frame
\* present) leaves labels/ as it was, whatever the result handed over, and
\* when the image write succeeds the image of the frame is under images/ and
\* success is reported.
ExportDisabledNoLabel ==
    [][(exports' # exports /\ ~refused' /\ ~enabled)
         => (/\ fs'.labels = fs.labels /\ fs'.lines = fs.lines
             /\ call'.imwrite = "ok"
                   => (/\ call'.frame_number \in fs'.images
                       /\ "images" \in fs'.dirs
                       /\ message' = "success"))]_vars

\* with inference disabled a frame was exported: its image is there and
\* labels/ is empty
ExportedWithoutLabel ==
    /\ exports > 0 /\ ~refused /\ ~call.enabled
    /\ call.imwrite = "ok"
    /\ call.frame_number \in fs.images
    /\ fs.labels = {}


\* C21: an export handled while inference is enabled (directory set, frame
\* present, both writes succeeding) with a result of zero instances, or with
\* no result at all, leaves the image of the frame under images/ and an empty
\* label file of the same frame under labels/, and reports success.
ExportNoInstancesEmptyLabel ==
    [][(/\ exports' # exports /\ ~refused' /\ enabled
        /\ call'.imwrite = "ok" /\ call'.label_io = "ok"
        /\ (~call'.results.present \/ call'.results.cls = <<>>))
         => (/\ call'.frame_number \in fs'.images
             /\ call'.frame_number \in fs'.labels
             /\ fs'.lines[call'.frame_number] = <<>>
             /\ fs'.dirs = {"images", "labels"}
             /\ message' = "success")]_vars

\* with inference enabled a frame with a result of zero instances was
\* exported: its image and its empty label file are there
ExportedEmptyLabel ==
    /\ exports > 0 /\ ~refused /\ call.enabled
    /\ call.imwrite = "ok" /\ call.label_io = "ok"
    /\ call.results = Result(TRUE, <<>>, 0)
    /\ call.frame_number \in fs.images
    /\ call.frame_number \in fs.labels
    /\ fs.lines[call.frame_number] = <<>>


\* C22: an export handled while inference is enabled (directory set, frame
\* present, both writes succeeding) with a result of k >= 1 instances leaves
\* under labels/ a file of exactly k lines, the i-th made of the class id and
\* the polygon of the i-th instance.
ExportInstancesOneLineEach ==
    [][(/\ exports' # exports /\ ~refused' /\ enabled
        /\ call'.imwrite = "ok" /\ call'.label_io = "ok"
        /\ call'.results.present /\ Len(call'.results.cls) >= 1)
         => LET k == Len(call'.results.cls)
                n == call'.frame_number
            IN  /\ n \in fs'.labels
                /\ Len(fs'.lines[n]) = k
                /\ \A i \in 1..k : fs'.lines[n][i] = <<call'.results.cls[i], i>>]_vars


\* C23: in an export that passed the precondition, a failed image write
\* leaves labels/ and images/ as they were and reports the image failure;
\* a label write that fails after the image was written reports the
\* partial-success warning, not success, and the image is there.
ExportIOFailures ==
    [][(exports' # exports /\ ~refused')
         => (/\ call'.imwrite # "ok"
                   => (/\ fs'.images = fs.images
                       /\ fs'.labels = fs.labels /\ fs'.lines = fs.lines
                       /\ message' = "critical_image")
             /\ (call'.imwrite = "ok" /\ enabled /\ call'.label_io = "raise")
                   => (/\ message' = "warn_labels"
                       /\ call'.frame_number \in fs'.images
                       /\ fs'.labels = fs.labels /\ fs'.lines = fs.lines))]_vars


\* the coordinate is a number of at most Decimals decimals
SixDecimals(x) == x % 10 = 0

\* C24: for an annotation with class id >= 0 and at least one point, all of
\* whose coordinates have at most six decimals, from_yolo_string applied to
\* its to_yolo_string raises nothing and returns the same class id and the
\* same points in the same order.
CodecRoundTrip ==
    (/\ codec_pc = "parsed"
     /\ annotation.class_id >= 0
     /\ Len(annotation.points) >= 1
     /\ \A i \in 1..Len(annotation.points) :
           SixDecimals(annotation.points[i][1]) /\ SixDecimals(annotation.points[i][2]))
        => (/\ ~parsed.error
            /\ parsed.class_id = annotation.class_id
            /\ parsed.points = annotation.points)

\* an annotation of two different points and a class id of two digits went
\* through the codec
TwoPointsRoundTripped ==
    /\ codec_pc = "parsed"
    /\ annotation = Annotation(12, <<<<1234560, 0>>, <<Unit, 0>>>>)
    /\ line = <<"1", "2", " ", "0", ".", "1", "2", "3", "4", "5", "6", " ",
                "0", ".", "0", "0", "0", "0", "0", "0", " ",
                "1", ".", "0", "0", "0", "0", "0", "0", " ",
                "0", ".", "0", "0", "0", "0", "0", "0">>
    /\ parsed = annotation


\* C25: a run that left the loop at its test, on the stop flag, has emitted
\* no PlaybackFinished; and from the moment stop() has set the flag on a
\* running worker until that run returns, no FrameReady, PositionChanged or
\* PlaybackFinished event is emitted.
StopEmitsNothingFurther ==
    /\ []((pc \in {"L101", "L104", "Lret"} /\ ret # "end")
            => Count(events, "PlaybackFinished") = 0)
    /\ [][(stop_pending /\ stop_pending' /\ Len(events') > Len(events))
            => events'[Len(events')].type
                  \notin {"FrameReady", "PositionChanged", "PlaybackFinished"}]_vars


\* C26: under fair scheduling of the worker and of the handler that called
\* stop(), every stop() that set the flag on a running worker is followed by
\* the end of that run and the return of stop().
StopCompletes == stop_pending ~> (stop_returned /\ ~running /\ pc = "idle")

\* stop() waits for a worker that is in its pause-poll sleep
StopWaitsOnPausedWorker ==
    /\ ctl = "stop_wait" /\ stop_pending /\ should_stop
    /\ running /\ pc = "L70"


\* C27: every iteration reads the state of the engine anew.  The test of
\* line 82 lets a frame through to predict() exactly when a model is loaded
\* and the flag is set at that moment; predict() reads both again, and the
\* frame is annotated exactly when both hold at this last reading (and
\* inference does not fail on the frame); the frame is emitted as it was
\* treated.
FreshInferenceFlags ==
    /\ [][(pc = "L82" /\ pc' = "L89") => (~(model /\ enabled) /\ ~annotated')]_vars
    /\ [][(pc = "L82" /\ pc' = "L83") => (model /\ enabled)]_vars
    /\ [][(pc = "L83" /\ pc' # pc)
            => (/\ pc' = "L89"
                /\ annotated' <=> (/\ model /\ enabled
                                   /\ ~InferenceFails(video_path, frame)))]_vars
    /\ [][(pc = "L89" /\ events' # events)
            => events' = Append(events, Event("FrameReady", <<frame, annotated>>))]_vars

\* the flag was switched off between two iterations of a run: the first
\* frame was emitted annotated, the very next one plain
ToggledBetweenFrames ==
    /\ video_path = "clip"
    /\ \E i \in 1..Len(events) :
          /\ events[i] = Event("FrameReady", <<0, TRUE>>)
          /\ i + 2 <= Len(events)
          /\ events[i + 2] = Event("FrameReady", <<1, FALSE>>)


\* C28: when inference fails on a frame, predict() leaves the frame plain,
\* emits nothing and the worker goes on with the media source open; the
\* iteration then emits the FrameReady of the frame as it was treated (when a
\* QImage can be made of it) and its PositionChanged, and returns to the loop
\* test.  A frame on which inference fails is never emitted annotated, and a
\* run on a video that opens has no Error event.
InferenceFailureSwallowed ==
    /\ [](Openable(video_path) => Count(events, "Error") = 0)
    /\ [](\A i \in 1..Len(events) :
            (/\ events[i].type = "FrameReady"
             /\ InferenceFails(video_path, events[i].val[1]))
               => ~events[i].val[2])
    /\ [][(/\ pc = "L83" /\ pc' # pc
           /\ model /\ enabled /\ InferenceFails(video_path, frame))
            => (/\ pc' = "L89" /\ ~annotated'
                /\ events' = events
                /\ running' /\ cap' = "open")]_vars
    /\ [][(pc = "L89" /\ pc' # pc)
            => (/\ pc' = "L92"
                /\ Convertible(video_path, frame)
                      => events' = Append(events,
                                          Event("FrameReady", <<frame, annotated>>)))]_vars
    /\ [][(pc = "L92" /\ pc' # pc)
            => (/\ pc' = "L96"
                /\ events' = Append(events, Event("PositionChanged",
                                                  PosMsec(frame, video_path))))]_vars
    /\ [][(pc = "L96" /\ pc' # pc) => (pc' = "L62" /\ events' = events)]_vars

\* with a model loaded and the flag set all along, the run on "odd" emitted
\* its second frame plain, with its position, and read on to the end
FailedFrameEmittedPlain ==
    /\ only_play /\ model /\ enabled
    /\ video_path = "odd" /\ ret = "end"
    /\ Count(events, "Error") = 0
    /\ \E i \in 1..Len(events) :
          /\ events[i] = Event("FrameReady", <<1, FALSE>>)
          /\ i < Len(events)
          /\ events[i + 1] = Event("PositionChanged", PosMsec(1, "odd"))


\* C29: the DurationChanged of a run carries 0 when the source reports
\* fps <= 0 and int(frame_count / fps * 1000) otherwise; with fps <= 0
\* delay_ms is never computed (no sleep, no division), with fps > 0 every
\* pacing sleep lasts int(1000 / fps) ms.
FpsGuards ==
    /\ [](\A i \in 1..Len(events) :
            events[i].type = "DurationChanged"
               => events[i].val =
                     IF FpsOf(video_path) > 0
                     THEN (FrameCountOf(video_path) * 1000) \div FpsOf(video_path)
                     ELSE 0)
    /\ [](FpsOf(video_path) <= 0 => delay_ms = NoDelay)
    /\ [](FpsOf(video_path) > 0
            => delay_ms \in {NoDelay, 1000 \div FpsOf(video_path)})
    /\ [][(pc = "L96" /\ pc' # pc /\ FpsOf(video_path) > 0)
            => delay_ms' = 1000 \div FpsOf(video_path)]_vars

\* a run on the video without a frame rate reported the duration 0, went
\* through its frames and ended without ever computing a delay
NoFpsRunEnded ==
    /\ video_path = "odd" /\ FpsOf(video_path) = 0
    /\ ~running /\ ret = "end"
    /\ events[1] = Event("DurationChanged", 0)
    /\ Count(events, "PositionChanged") = NumFrames
    /\ delay_ms = NoDelay


\* C30: while a pause() issued to a running worker is in force (no play()
\* and no stop() since), the run has read at most one frame more than it had
\* when pause() was issued, and has emitted at most one FrameReady and one
\* PositionChanged more.
PauseBoundsProgress ==
    (at_pause.decoded >= 0)
        => (/\ Progressed.decoded <= at_pause.decoded + 1
            /\ Progressed.frames <= at_pause.frames + 1
            /\ Progressed.positions <= at_pause.positions + 1)

\* the iteration that had passed the pause test read and emitted one more
\* frame after pause(), and the worker now polls the flag
OneMorePairThenPolling ==
    /\ at_pause.decoded >= 0 /\ is_paused
    /\ pc = "L70"
    /\ Progressed.decoded = at_pause.decoded + 1
    /\ Progressed.frames = at_pause.frames + 1
    /\ Progressed.positions = at_pause.positions + 1



\* C31: play() on a VideoThread whose run has ended (the thread has finished,
\* after the end of the video or after stop()) takes the start branch and
\* starts the same thread on the same video, leaving the pause flag as it is;
\* the run then opens the video at its first frame and emits DurationChanged
\* as its first event.  After stop() ended the previous run, the pause flag
\* is clear when play() follows and stays clear until the next command.
RestartByPlay ==
    /\ [][(ctl = "idle" /\ ctl' \in {"play_start", "play_resume"} /\ ~running)
            => ctl' = "play_start"]_vars
    /\ [][(ctl = "play_start" /\ ctl' # ctl /\ ~running)
            => (/\ running' /\ pc' = "L42" /\ events' = <<>>
                /\ video_thread' = video_thread /\ video_path' = video_path
                /\ is_paused' = is_paused)]_vars
    /\ [][(pc = "L42" /\ pc' # pc /\ Openable(video_path))
            => (/\ cap' = "open" /\ next_frame' = 0
                /\ events' = <<Event("DurationChanged",
                                     DurationMs(FrameCountOf(video_path),
                                                FpsOf(video_path)))>>)]_vars
    /\ []((prior_run = "stopped" /\ last_cmd \in {"play", "play_idle"})
            => ~is_paused)

\* play() after stop() had ended a run: the new run has opened the video
\* again and reported its duration, unpaused
RestartedAfterStop ==
    /\ prior_run = "stopped" /\ last_cmd = "play_idle"
    /\ video_path = "clip" /\ pc = "L59"
    /\ events = <<Event("DurationChanged", 200)>>
    /\ next_frame = 0 /\ cap = "open" /\ ~is_paused



\* the last seek() found the worker not running and asked for a position
\* >= 0 that no cap.set has served yet
IdleSeekOwed == seek_idle /\ last_req >= 0 /\ repos = 0

\* C32: a target >= 0 recorded by seek() while the worker was not running
\* stays in seek_position, through stop() and the start of a run, until the
\* loop applies it; as long as it is not applied the run has read no frame
\* and has not gone past the seek test of its first iteration; when it is
\* applied the media source stands at the target, before any read.
IdleSeekStaysPending ==
    /\ IdleSeekOwed => seek_position = last_req
    /\ (IdleSeekOwed /\ running)
          => (/\ ret = "none"
              /\ pc \in {"L42", "L59", "L60", "L62", "L64", "L65", "L101", "L104", "Lret"})
    /\ (seek_idle /\ last_req >= 0 /\ repos >= 1) => last_set = last_req
    /\ (seek_idle /\ last_req >= 0 /\ pc = "L66" /\ ret = "none")
          => next_frame = SeekFrame(last_req, video_path)

\* a seek to 100 recorded after a run had ended went through stop() and the
\* start of the next run, whose first iteration has just repositioned
IdleSeekAppliedFirst ==
    /\ seek_idle /\ last_req = 100 /\ prior_run = "stopped"
    /\ video_path = "clip" /\ pc = "L66" /\ ret = "none"
    /\ last_set = 100 /\ next_frame = 1
    /\ events = <<Event("DurationChanged", 200)>>



\* C33: after a seek(p) with p < 0, and until the next seek(), the loop
\* hands nothing to cap.set: the media source is not repositioned, and a
\* target >= 0 that was pending is dropped without being applied.
NegativeSeekNeverRepositions == (last_req < 0) => (repos = 0)



\* C34: an export that passed the precondition and whose image write and
\* label write succeed leaves the image of the frame, and writes the label
\* file of the frame exactly when the enable flag is set as the handler
\* runs: with the flag set the file is there afterwards, with the flag clear
\* labels/ is as it was.  Neither the loaded model nor the result handed
\* over (present or not) has a say.
LabelIffEnabled ==
    [][(/\ exports' # exports /\ ~refused'
        /\ call'.imwrite = "ok" /\ call'.label_io = "ok")
         => (/\ call'.frame_number \in fs'.images
             /\ fs'.labels = IF enabled THEN fs.labels \cup {call'.frame_number}
                             ELSE fs.labels
             /\ ~enabled => fs'.lines = fs.lines)]_vars

\* with a model loaded and a result of one instance handed over, the flag
\* was clear when the frame was exported: the image is there, no label file
ModelLoadedFlagClearNoLabel ==
    /\ exports > 0 /\ ~refused /\ model /\ ~call.enabled
    /\ call.imwrite = "ok" /\ call.label_io = "ok"
    /\ call.results = Result(TRUE, <<1>>, 1)
    /\ call.frame_number \in fs.images
    /\ call.frame_number \notin fs.labels



\* the list and the cursor a call of nav.handler left
ListOf(h) == IF h = "VideoHandler" THEN video_files ELSE image_files
CursorOf(h) == IF h = "VideoHandler" THEN current_index ELSE image_index

\* C35: after every call of set_directory / set_directories, next, previous
\* and goto on VideoHandler and FileHandler the cursor is 0 when the list is
\* empty and an index of the list otherwise; next at the last item, previous
\* at the first and goto with an index out of range return False and leave
\* the cursor where it was (a call that moves returns True and lands on the
\* neighbour, or on the index asked for); loading a directory sets it to 0.
CursorInRange ==
    /\ \A h \in {"VideoHandler", "FileHandler"} :
          IF ListOf(h) = <<>> THEN CursorOf(h) = 0
          ELSE 0 <= CursorOf(h) /\ CursorOf(h) < Len(ListOf(h))
    /\ nav.op = "load" => CursorOf(nav.handler) = 0
    /\ nav.op = "next"
          => IF ListOf(nav.handler) = <<>> \/ nav.before = Len(ListOf(nav.handler)) - 1
             THEN ~nav.ret /\ CursorOf(nav.handler) = nav.before
             ELSE nav.ret /\ CursorOf(nav.handler) = nav.before + 1
    /\ nav.op = "previous"
          => IF ListOf(nav.handler) = <<>> \/ nav.before = 0
             THEN ~nav.ret /\ CursorOf(nav.handler) = nav.before
             ELSE nav.ret /\ CursorOf(nav.handler) = nav.before - 1
    /\ nav.op = "goto"
          => IF nav.arg < 0 \/ nav.arg >= Len(ListOf(nav.handler))
             THEN ~nav.ret /\ CursorOf(nav.handler) = nav.before
             ELSE nav.ret /\ CursorOf(nav.handler) = nav.arg

\* next_video was refused at the last of three videos while the image cursor
\* stands on the second of two images
NextRefusedAtLastVideo ==
    /\ nav = Nav("VideoHandler", "next", 0, 2, FALSE)
    /\ video_files = <<"a.MOV", "b.mp4", "f.avi">> /\ current_index = 2
    /\ image_files = <<"d.jpg", "e.PNG">> /\ image_index = 1



\* the worker is inside the while loop of run() (lines 62-98)
InLoop ==
    pc \in {"L62", "L64", "L65", "L66", "L69", "L70", "L74", "L78", "L82", "L83",
            "L89", "L92", "L96"}

\* C36: is_playing is set only in a running worker whose open succeeded and
\* which is in its loop or in the cleanup that follows it; it is clear before
\* and during the open; while it is set the media source is open, up to the
\* release of line 102; once run() returns it is clear, and when that run had
\* entered the loop cap is None.
PlayingOnlyInLoop ==
    /\ is_playing
          => (/\ running
              /\ InLoop \/ pc \in {"L101", "L104"}
              /\ Count(events, "DurationChanged") = 1)
    /\ (is_playing /\ pc # "L104") => cap = "open"
    /\ pc \in {"L42", "L59", "L60"} => ~is_playing
    /\ pc \in {"Lret", "idle"} => ~is_playing
    /\ (pc \in {"Lret", "idle"} /\ Count(events, "DurationChanged") = 1)
          => cap = "None"

\* a run that entered the loop and was stopped before it read a frame has
\* terminated
StoppedRunLeftClean ==
    /\ pc = "idle" /\ ~running /\ last_cmd = "stop"
    /\ events = <<Event("DurationChanged", 200)>>
    /\ ret = "none" /\ releases = 1
    /\ ~is_playing /\ cap = "None"



\* a coordinate as the file holds it: rounded to Decimals decimals
Rounded(x) == ((x + 5) \div 10) * 10

\* the annotations of a list that have a point, each with its coordinates
\* rounded to Decimals decimals
Kept(list) ==
    LET with_points == SelectSeq(list, LAMBDA a : a.points # <<>>)
    IN  [i \in 1..Len(with_points) |->
            Annotation(with_points[i].class_id,
                       [k \in 1..Len(with_points[i].points) |->
                           <<Rounded(with_points[i].points[k][1]),
                             Rounded(with_points[i].points[k][2])>>])]

\* what both statements of C37 say of an empty list and of a file with
\* blank and invalid lines
EmptyListAndSkippedLines ==
    /\ (put.by = "save" /\ put.list = <<>>) => ~store.exists
    /\ (store_pc = "loaded" /\ put.by = "save" /\ put.list = <<>>)
          => loaded = Loaded(FALSE, <<>>)
    /\ (store_pc = "loaded" /\ put.by = "other")
          => loaded = Loaded(FALSE, put.list)

\* C37 as stated: load_annotations after save_annotations(path, L) with L not
\* empty returns the annotations of L in order; an empty L deletes the file and
\* the load returns the empty list; blank and invalid lines are skipped without
\* failing.
StoreRoundTripAnyList ==
    /\ (store_pc = "loaded" /\ put.by = "save" /\ put.list # <<>>)
          => loaded = Loaded(FALSE, put.list)
    /\ EmptyListAndSkippedLines

\* C37 as amended: load_annotations after save_annotations(path, L) with L not
\* empty returns, in order, the annotations of L that have at least one point,
\* with the class id of each and its coordinates rounded to six decimals (so L
\* itself when every annotation has a point and no coordinate more than six
\* decimals); the rest as stated.
StoreRoundTrip ==
    /\ (store_pc = "loaded" /\ put.by = "save" /\ put.list # <<>>)
          => loaded = Loaded(FALSE, Kept(put.list))
    /\ (store_pc = "loaded" /\ put.by = "save" /\ put.list # <<>>
           /\ Kept(put.list) = put.list)
          => loaded.annotations = put.list
    /\ EmptyListAndSkippedLines

\* a list of two annotations was saved over an existing file and loaded: the
\* one without points is gone, the other came back with rounded coordinates
SavedTwoLoadedOne ==
    /\ store_pc = "loaded" /\ put.by = "save" /\ put.existed
    /\ put.list = <<Annotation(0, <<>>),
                     Annotation(12, <<<<1234560, 1234561>>, <<1234567, 0>>>>)>>
    /\ Len(store.lines) = 2
    /\ loaded.annotations =
          <<Annotation(12, <<<<1234560, 1234560>>, <<1234570, 0>>>>)>>

====
